---- MODULE Spec2Model ----
(***************************************************************************)
(* The PSX runtime (src/runtime.py) and the render bodies the compiler     *)
(* emits against it (the expected outputs under src/compiler and           *)
(* src/test_composition), modelled as a heap of Python objects and an      *)
(* interpreter of the emitted statements.                                  *)
(*                                                                         *)
(* Text is a sequence of one-character strings, so that escaping, joining  *)
(* and substring search are computed character by character.               *)
(***************************************************************************)
EXTENDS Integers, Sequences, FiniteSets, TLC

VARIABLES heap, refs, wraps, last, units, plan, biscuit

vars == <<heap, refs, wraps, last, units, plan, biscuit>>

\* no compilation, optimizer pass or biscuit call is under way
Idle == <<>>

(***************************************************************************)
(* Bounds of the model.                                                    *)
(***************************************************************************)
\* executions of one view's _render the program lets happen
MaxRenders == 2
\* items of a collection a generated for loop iterates
MaxItems == 2
\* elements the program wraps around the objects it holds
MaxWraps == 1

(***************************************************************************)
(* Python values.  A reference names an object of the heap by its index.   *)
(***************************************************************************)
PyNone == [t |-> "none"]
PyStrV(s) == [t |-> "str", s |-> s]
PyInt(n) == [t |-> "int", n |-> n]
PyBool(b) == [t |-> "bool", b |-> b]
PyRef(id) == [t |-> "ref", id |-> id]
\* an exception instance: its class and the message it was raised with
PyExc(cls, msg) == [t |-> "exc", cls |-> cls, msg |-> msg]

\* "".join(ss), halving ss to keep the evaluation shallow
RECURSIVE Join(_)
Join(ss) ==
  IF ss = <<>> THEN <<>>
  ELSE IF Len(ss) = 1 THEN ss[1]
  ELSE Join(SubSeq(ss, 1, Len(ss) \div 2)) \o Join(SubSeq(ss, Len(ss) \div 2 + 1, Len(ss)))

RECURSIVE NatDigits(_)
NatDigits(n) ==
  LET d == <<"0", "1", "2", "3", "4", "5", "6", "7", "8", "9">>
  IN IF n < 10 THEN <<d[n + 1]>> ELSE NatDigits(n \div 10) \o <<d[(n % 10) + 1]>>

IntStr(n) == IF n < 0 THEN <<"-">> \o NatDigits(0 - n) ELSE NatDigits(n)

(***************************************************************************)
(* escape (runtime.py:10-21): None -> "", str -> html.escape(quote=True),  *)
(* anything else -> str(raw).                                              *)
(***************************************************************************)
HtmlEscapeChar(c) ==
  CASE c = "&" -> <<"&", "a", "m", "p", ";">>
    [] c = "<" -> <<"&", "l", "t", ";">>
    [] c = ">" -> <<"&", "g", "t", ";">>
    [] c = "\"" -> <<"&", "q", "u", "o", "t", ";">>
    [] c = "'" -> <<"&", "#", "x", "2", "7", ";">>
    [] OTHER -> <<c>>

HtmlEscape(s) == Join([i \in 1..Len(s) |-> HtmlEscapeChar(s[i])])

\* str() of a value that is not an object of the heap
PrimStr(v) ==
  CASE v.t = "str" -> v.s
    [] v.t = "none" -> <<"N", "o", "n", "e">>
    [] v.t = "int" -> IntStr(v.n)
    [] v.t = "bool" -> IF v.b THEN <<"T", "r", "u", "e">> ELSE <<"F", "a", "l", "s", "e">>
    [] v.t = "exc" -> v.msg

\* escape that turns None into the text None
escape_NoneText(raw) ==
  IF raw.t = "str" THEN HtmlEscape(raw.s) ELSE PrimStr(raw)

\* escape without the html.escape of strings
escape_Unescaped(raw) ==
  IF raw.t = "none" THEN <<>> ELSE PrimStr(raw)

escape(raw) ==
  IF raw.t = "none" THEN <<>>
  ELSE IF raw.t = "str" THEN HtmlEscape(raw.s)
  ELSE PrimStr(raw)

(***************************************************************************)
(* _render_attrs (runtime.py:27-43).  attrs is the dict in insertion       *)
(* order, a sequence of <<name, value>>.                                   *)
(***************************************************************************)
\* _render_attrs that leaves out every value that is false in a condition
RECURSIVE _render_attrs_Falsy(_)
_render_attrs_Falsy(attrs) ==
  IF attrs = <<>> THEN <<>>
  ELSE LET key == Head(attrs)[1]
           val == Head(attrs)[2]
           piece == IF val \in {PyNone, PyBool(FALSE), PyInt(0), PyStrV(<<>>)} THEN <<>>
                    ELSE IF val.t = "bool" /\ val.b THEN <<" ">> \o key
                    ELSE <<" ">> \o key \o <<"=", "\"">> \o escape(val) \o <<"\"">>
       IN piece \o _render_attrs_Falsy(Tail(attrs))

RECURSIVE _render_attrs(_)
_render_attrs(attrs) ==
  IF attrs = <<>> THEN <<>>
  ELSE LET key == Head(attrs)[1]
           val == Head(attrs)[2]
           piece == IF val.t = "none" \/ (val.t = "bool" /\ ~val.b) THEN <<>>
                    ELSE IF val.t = "bool" /\ val.b THEN <<" ">> \o key
                    ELSE <<" ">> \o key \o <<"=", "\"">> \o escape(val) \o <<"\"">>
       IN piece \o _render_attrs(Tail(attrs))

(***************************************************************************)
(* The heap: a sequence of objects.                                        *)
(*   list : [k, items]                                                     *)
(*   elem : [k, tag, children (the id of a list), attrs, self_close, frag, *)
(*           html_cache]            (Element / FragmentElement)            *)
(*   view : [k, cls, fields, has_render_cache, render_cache,               *)
(*           has_html_cache, html_cache, renders, returned]   (BaseView)   *)
(* renders counts the executions of _render that started and returned      *)
(* those that returned a value; they are not Python attributes.            *)
(***************************************************************************)
Ok(h, v) == [h |-> h, v |-> v, err |-> ""]
Raise(h, e) == [h |-> h, v |-> PyNone, err |-> e]

Alloc(h, obj) == [h |-> Append(h, obj), id |-> Len(h) + 1]

NewList(h, items) == Alloc(h, [k |-> "list", items |-> items])

IsList(h, v) == v.t = "ref" /\ h[v.id].k = "list"
IsElement(h, v) == v.t = "ref" /\ h[v.id].k = "elem"
IsView(h, v) == v.t = "ref" /\ h[v.id].k = "view"

\* list.append
ListAppend(h, lid, v) == [h EXCEPT ![lid].items = Append(@, v)]

\* Element.__init__ (runtime.py:65-83); a FragmentElement (129-136) has no
\* tag, no attributes and is not self-closing
Element(h, tag, children, attrs, self_close, frag) ==
  LET l == IF IsList(h, children) THEN [h |-> h, id |-> children.id]
           ELSE NewList(h, <<children>>)
  IN Alloc(l.h, [k |-> "elem", tag |-> tag, children |-> l.id,
                 attrs |-> IF attrs.t = "none" THEN <<>> ELSE attrs.d,
                 self_close |-> self_close, frag |-> frag,
                 html_cache |-> PyNone])

\* el (runtime.py:190-218)
el(h, tag, content, attrs, self_close) ==
  LET l == IF ~IsList(h, content) THEN NewList(h, <<content>>)
           ELSE [h |-> h, id |-> content.id]
      e == Element(l.h, tag, PyRef(l.id), attrs, self_close, FALSE)
  IN Ok(e.h, PyRef(e.id))

\* fragment that wraps its children in a div
fragment_Wrapped(h, children) ==
  el(h, <<"d", "i", "v">>, children, PyNone, FALSE)

\* fragment (runtime.py:286-296)
fragment(h, children) ==
  LET e == Element(h, <<>>, children, PyNone, FALSE, TRUE)
  IN Ok(e.h, PyRef(e.id))

PyDict(d) == [t |-> "dict", d |-> d]

\* truth value of a Python object: Element and BaseView define neither
\* __bool__ nor __len__, so every instance is true
Truthy(h, v) ==
  CASE v.t = "none" -> FALSE
    [] v.t = "bool" -> v.b
    [] v.t = "int" -> v.n # 0
    [] v.t = "str" -> v.s # <<>>
    [] v.t = "dict" -> v.d # <<>>
    [] v.t = "ref" -> IF h[v.id].k = "list" THEN h[v.id].items # <<>> ELSE TRUE

(***************************************************************************)
(* The emitted code, as data.  Expressions:                                *)
(***************************************************************************)
Lit(v) == [e |-> "lit", v |-> v]
LitS(s) == [e |-> "lit", v |-> PyStrV(s)]
NoneE == [e |-> "lit", v |-> PyNone]
Var(n) == [e |-> "var", name |-> n]
Self(n) == [e |-> "self", name |-> n]
ListE(items) == [e |-> "list", items |-> items]
\* el(tag, content) and el(tag, content, {name: value, ...})
ElE(tag, content) == [e |-> "el", tag |-> tag, content |-> content, hasattrs |-> FALSE, attrs |-> <<>>]
ElA(tag, content, attrs) == [e |-> "el", tag |-> tag, content |-> content, hasattrs |-> TRUE, attrs |-> attrs]
EscapeE(x) == [e |-> "escape", arg |-> x]
FragmentE(x) == [e |-> "fragment", arg |-> x]
RenderChildE(x) == [e |-> "render_child", arg |-> x]
\* a if cond else b
IfE(a, cond, b) == [e |-> "ifexp", cond |-> cond, a |-> a, b |-> b]
IsNotNoneE(x) == [e |-> "isnotnone", arg |-> x]
EqE(a, b) == [e |-> "eq", a |-> a, b |-> b]
\* a call of a module-level name that is not part of the runtime
CallE(fn, args) == [e |-> "call", fn |-> fn, args |-> args]
\* Cls(name=value, ...)
NewE(cls, kwargs) == [e |-> "new", cls |-> cls, kwargs |-> kwargs]
\* f"...{x}..." : the parts are expressions, formatted with str() and joined
FStrE(parts) == [e |-> "fstr", parts |-> parts]
\* not x, a and b, a * b, a < b
NotE(x) == [e |-> "not", arg |-> x]
AndE(a, b) == [e |-> "and", a |-> a, b |-> b]
MulE(a, b) == [e |-> "mul", a |-> a, b |-> b]
LtE(a, b) == [e |-> "lt", a |-> a, b |-> b]
\* the builtins len(x), int(x), str(x)
LenE(x) == [e |-> "len", arg |-> x]
IntE(x) == [e |-> "int", arg |-> x]
StrE(x) == [e |-> "str", arg |-> x]
\* fn(args) of a function the module defines
\* x[key] with a literal key
IndexE(x, key) == [e |-> "index", arg |-> x, key |-> key]
InvokeE(fn, args) == [e |-> "invoke", fn |-> fn, args |-> args]

(***************************************************************************)
(* Statements.                                                             *)
(***************************************************************************)
Assign(var, x) == [s |-> "assign", var |-> var, x |-> x]
AppendS(var, x) == [s |-> "append", var |-> var, x |-> x]
ForS(var, iter, body) == [s |-> "for", var |-> var, iter |-> iter, body |-> body]
IfS(cond, then, orelse) == [s |-> "if", cond |-> cond, then |-> then, orelse |-> orelse]
ReturnS(x) == [s |-> "return", x |-> x]
\* raise cls(x)
RaiseS(cls, x) == [s |-> "raise", cls |-> cls, x |-> x]
\* try: body, except handlers in source order, finally: final (<<>> when absent);
\* a handler is  except <types> [as var]: body,  var "" when absent
Handler(types, var, body) == [types |-> types, var |-> var, body |-> body]
TryS(body, handlers, final) ==
  [s |-> "try", body |-> body, handlers |-> handlers, final |-> final]
\* match subject: cases in source order;  case <literal>: body  or  case _: body
CaseLit(pat, body) == [wild |-> FALSE, pat |-> pat, body |-> body]
CaseWild(body) == [wild |-> TRUE, pat |-> PyNone, body |-> body]
MatchS(subject, cases) == [s |-> "match", subject |-> subject, cases |-> cases]
\* for (k, v) in <x>.items(): body
ForItemsS(k, v, x, body) == [s |-> "foritems", k |-> k, v |-> v, x |-> x, body |-> body]

EmptyEnv == [x \in {} |-> PyNone]
Bind(env, x, v) == [y \in DOMAIN env \cup {x} |-> IF y = x THEN v ELSE env[y]]
\* del x
Unbind(env, x) == [y \in DOMAIN env \ {x} |-> env[y]]

(***************************************************************************)
(* The emitted render bodies, statement by statement.                      *)
(***************************************************************************)
\* src/test_composition/card.py
Card_render ==
  << ReturnS(ElA(<<"d", "i", "v">>, ElE(<<"h", "2">>, EscapeE(Self("title"))),
                 << <<<<"c", "l", "a", "s", "s">>, LitS(<<"c", "a", "r", "d">>)>> >>)) >>

\* src/test_composition/page.py
Page_render ==
  << Assign("_root_children_1000", ListE(<<>>)),
     Assign("_div_children_2000", ListE(<<>>)),
     AppendS("_div_children_2000", ElE(<<"h", "1">>, LitS(<<"M", "y", " ", "P", "a", "g", "e">>))),
     AppendS("_div_children_2000", NewE("Card", << <<"title", LitS(<<"F", "i", "r", "s", "t", " ", "C", "a", "r", "d">>)>> >>)),
     AppendS("_div_children_2000", NewE("Card", << <<"title", LitS(<<"S", "e", "c", "o", "n", "d", " ", "C", "a", "r", "d">>)>> >>)),
     AppendS("_root_children_1000", ElE(<<"d", "i", "v">>, Var("_div_children_2000"))),
     ReturnS(FragmentE(Var("_root_children_1000"))) >>

\* src/compiler/testdata/expected/views/parameter_shadowing.py, class Greeting
Greeting_render ==
  << ReturnS(ElE(<<"h", "1">>, FStrE(<<LitS(<<"H", "e", "l", "l", "o", ",", " ">>), EscapeE(Self("name")), LitS(<<"!">>)>>))) >>

\* UserList._render with the append after the loop instead of inside it
UserList_render_Dedented ==
  << Assign("_root_children_1000", ListE(<<>>)),
     Assign("_ul_children_2000", ListE(<<>>)),
     ForS("user", Self("users"), << >>),
     AppendS("_ul_children_2000", ElE(<<"l", "i">>, EscapeE(Var("user")))),
     AppendS("_root_children_1000", ElE(<<"u", "l">>, Var("_ul_children_2000"))),
     ReturnS(FragmentE(Var("_root_children_1000"))) >>

\* src/compiler/testdata/expected/control_flow/for_in_element.py
UserList_render ==
  << Assign("_root_children_1000", ListE(<<>>)),
     Assign("_ul_children_2000", ListE(<<>>)),
     ForS("user", Self("users"),
          << AppendS("_ul_children_2000", ElE(<<"l", "i">>, EscapeE(Var("user")))) >>),
     AppendS("_root_children_1000", ElE(<<"u", "l">>, Var("_ul_children_2000"))),
     ReturnS(FragmentE(Var("_root_children_1000"))) >>

\* src/compiler/testdata/input/control_flow/for_in_element.py: the output
\* recorded for the same source in another run
input_UserList_render ==
  << Assign("_root_children_2000", ListE(<<>>)),
     Assign("_ul_children_3000", ListE(<<>>)),
     ForS("user", Self("users"),
          << AppendS("_ul_children_3000", ElE(<<"l", "i">>, EscapeE(Var("user")))) >>),
     AppendS("_root_children_2000", ElE(<<"u", "l">>, Var("_ul_children_3000"))),
     ReturnS(FragmentE(Var("_root_children_2000"))) >>

\* src/compiler/testdata/expected/control_flow/nested_for_in_elements.py
Table_render ==
  << Assign("_root_children_1000", ListE(<<>>)),
     Assign("_table_children_2000", ListE(<<>>)),
     ForS("row", Self("rows"),
          << Assign("_tr_children_3000", ListE(<<>>)),
             ForS("cell", Var("row"),
                  << AppendS("_tr_children_3000", ElE(<<"t", "d">>, EscapeE(Var("cell")))) >>),
             AppendS("_table_children_2000", ElE(<<"t", "r">>, Var("_tr_children_3000"))) >>),
     AppendS("_root_children_1000", ElE(<<"t", "a", "b", "l", "e">>, Var("_table_children_2000"))),
     ReturnS(FragmentE(Var("_root_children_1000"))) >>

\* src/compiler/transformers/testdata/expected/html/nested_elements.py
NestedElements_render ==
  << Assign("_root_children_1000", ListE(<<>>)),
     Assign("_div_children_2000", ListE(<<>>)),
     AppendS("_div_children_2000", ElE(<<"h", "1">>, EscapeE(LitS(<<"T", "i", "t", "l", "e">>)))),
     AppendS("_div_children_2000", ElE(<<"p">>, EscapeE(LitS(<<"C", "o", "n", "t", "e", "n", "t">>)))),
     AppendS("_root_children_1000", ElE(<<"d", "i", "v">>, Var("_div_children_2000"))),
     ReturnS(FragmentE(Var("_root_children_1000"))) >>

\* ConditionalView._render with the two branches exchanged
ConditionalView_render_Swapped ==
  << Assign("_root_children_1000", ListE(<<>>)),
     IfS(Self("show_message"),
         << AppendS("_root_children_1000", ElE(<<"d", "i", "v">>, EscapeE(LitS(<<"N", "o", " ", "m", "e", "s", "s", "a", "g", "e">>)))) >>,
         << AppendS("_root_children_1000", ElE(<<"d", "i", "v">>, EscapeE(Self("message")))) >>),
     ReturnS(FragmentE(Var("_root_children_1000"))) >>

\* src/compiler/transformers/testdata/expected/control_flow/if_statement.py
ConditionalView_render ==
  << Assign("_root_children_1000", ListE(<<>>)),
     IfS(Self("show_message"),
         << AppendS("_root_children_1000", ElE(<<"d", "i", "v">>, EscapeE(Self("message")))) >>,
         << AppendS("_root_children_1000", ElE(<<"d", "i", "v">>, EscapeE(LitS(<<"N", "o", " ", "m", "e", "s", "s", "a", "g", "e">>)))) >>),
     ReturnS(FragmentE(Var("_root_children_1000"))) >>

\* src/compiler/transformers/testdata/expected/edge_cases/multiple_roots.py
MultipleRoots_render ==
  << Assign("_root_children_1000", ListE(<<>>)),
     AppendS("_root_children_1000", ElE(<<"h", "1">>, EscapeE(LitS(<<"F", "i", "r", "s", "t">>)))),
     AppendS("_root_children_1000", ElE(<<"p">>, EscapeE(LitS(<<"S", "e", "c", "o", "n", "d">>)))),
     AppendS("_root_children_1000", ElE(<<"d", "i", "v">>, EscapeE(LitS(<<"T", "h", "i", "r", "d">>)))),
     ReturnS(FragmentE(Var("_root_children_1000"))) >>

\* src/compiler/testdata/expected/views/multiple_root_elements.py
MultiRoot_render ==
  << Assign("_view_children_1000", ListE(<<>>)),
     AppendS("_view_children_1000", ElE(<<"h", "1">>, EscapeE(Self("title")))),
     AppendS("_view_children_1000", ElE(<<"p">>, EscapeE(Self("content")))),
     AppendS("_view_children_1000", ElE(<<"d", "i", "v">>, ElE(<<"s", "p", "a", "n">>, LitS(<<"A", "d", "d", "i", "t", "i", "o", "n", "a", "l", " ", "c", "o", "n", "t", "e", "n", "t">>)))),
     ReturnS(FragmentE(Var("_view_children_1000"))) >>

\* a slot reference with the test inverted
SlotRef_Inverted(slot, fallback) ==
  IfE(fallback, IsNotNoneE(Self(slot)), RenderChildE(Self(slot)))

\* a slot reference: render_child(self.<slot>) if self.<slot> is not None else <fallback>
SlotRef(slot, fallback) ==
  IfE(RenderChildE(Self(slot)), IsNotNoneE(Self(slot)), fallback)

\* src/compiler/testdata/expected/slots/basic_slots.py, class Layout
Layout_render ==
  << ReturnS(ElA(<<"d", "i", "v">>,
       ListE(<< ElE(<<"h", "e", "a", "d", "e", "r">>, SlotRef("header", ElE(<<"h", "1">>, LitS(<<"D", "e", "f", "a", "u", "l", "t", " ", "H", "e", "a", "d", "e", "r">>)))),
                ElE(<<"m", "a", "i", "n">>, SlotRef("children", ElE(<<"p">>, LitS(<<"D", "e", "f", "a", "u", "l", "t", " ", "c", "o", "n", "t", "e", "n", "t">>)))),
                ElE(<<"f", "o", "o", "t", "e", "r">>, SlotRef("footer", ElE(<<"p">>, LitS(<<"D", "e", "f", "a", "u", "l", "t", " ", "f", "o", "o", "t", "e", "r">>)))) >>),
       << <<<<"c", "l", "a", "s", "s">>, LitS(<<"l", "a", "y", "o", "u", "t">>)>> >>)) >>

\* App with the header passed as a bare element
App_render_Bare ==
  << Assign("_slot_children_2000", ListE(<<>>)),
     AppendS("_slot_children_2000",
             ElE(<<"d", "i", "v">>, ListE(<< ElE(<<"p">>, LitS(<<"T", "h", "i", "s", " ", "i", "s", " ", "t", "h", "e", " ", "m", "a", "i", "n", " ", "c", "o", "n", "t", "e", "n", "t">>)),
                                  ElE(<<"p">>, LitS(<<"M", "u", "l", "t", "i", "p", "l", "e", " ", "p", "a", "r", "a", "g", "r", "a", "p", "h", "s">>)) >>))),
     Assign("_slot_children_3000", ListE(<<>>)),
     AppendS("_slot_children_3000", ElE(<<"d", "i", "v">>, ElE(<<"p">>, LitS(<<"&", "c", "o", "p", "y", ";", " ", "2", "0", "2", "4", " ", "M", "y", " ", "A", "p", "p">>)))),
     ReturnS(NewE("Layout", << <<"header", ElE(<<"h", "1">>, LitS(<<"C", "u", "s", "t", "o", "m", " ", "H", "e", "a", "d", "e", "r">>))>>,
                               <<"children", FragmentE(Var("_slot_children_2000"))>>,
                               <<"footer", FragmentE(Var("_slot_children_3000"))>> >>)) >>


\* src/compiler/testdata/expected/slots/basic_slots.py, class App
App_render ==
  << Assign("_slot_children_1000", ListE(<<>>)),
     AppendS("_slot_children_1000", ElE(<<"h", "1">>, LitS(<<"C", "u", "s", "t", "o", "m", " ", "H", "e", "a", "d", "e", "r">>))),
     Assign("_slot_children_2000", ListE(<<>>)),
     AppendS("_slot_children_2000",
             ElE(<<"d", "i", "v">>, ListE(<< ElE(<<"p">>, LitS(<<"T", "h", "i", "s", " ", "i", "s", " ", "t", "h", "e", " ", "m", "a", "i", "n", " ", "c", "o", "n", "t", "e", "n", "t">>)),
                                  ElE(<<"p">>, LitS(<<"M", "u", "l", "t", "i", "p", "l", "e", " ", "p", "a", "r", "a", "g", "r", "a", "p", "h", "s">>)) >>))),
     Assign("_slot_children_3000", ListE(<<>>)),
     AppendS("_slot_children_3000", ElE(<<"d", "i", "v">>, ElE(<<"p">>, LitS(<<"&", "c", "o", "p", "y", ";", " ", "2", "0", "2", "4", " ", "M", "y", " ", "A", "p", "p">>)))),
     ReturnS(NewE("Layout", << <<"header", FragmentE(Var("_slot_children_1000"))>>,
                               <<"children", FragmentE(Var("_slot_children_2000"))>>,
                               <<"footer", FragmentE(Var("_slot_children_3000"))>> >>)) >>

\* src/compiler/testdata/expected/slots/template_slots.py, class Card
SlotCard_render ==
  << ReturnS(ElA(<<"d", "i", "v">>,
       ListE(<< ElA(<<"d", "i", "v">>, SlotRef("header", ElE(<<"h", "4">>, LitS(<<"D", "e", "f", "a", "u", "l", "t", " ", "H", "e", "a", "d", "e", "r">>))),
                    << <<<<"c", "l", "a", "s", "s">>, LitS(<<"c", "a", "r", "d", "-", "h", "e", "a", "d", "e", "r">>)>> >>),
                ElA(<<"d", "i", "v">>, SlotRef("children", LitS(<<>>)),
                    << <<<<"c", "l", "a", "s", "s">>, LitS(<<"c", "a", "r", "d", "-", "b", "o", "d", "y">>)>> >>),
                ElA(<<"d", "i", "v">>, SlotRef("footer", LitS(<<>>)),
                    << <<<<"c", "l", "a", "s", "s">>, LitS(<<"c", "a", "r", "d", "-", "f", "o", "o", "t", "e", "r">>)>> >>) >>),
       << <<<<"c", "l", "a", "s", "s">>, LitS(<<"c", "a", "r", "d">>)>> >>)) >>

\* src/compiler/testdata/expected/slots/template_slots.py, class App
TemplateApp_render ==
  << Assign("_slot_children_1000", ListE(<<>>)),
     AppendS("_slot_children_1000",
             ElE(<<"t", "e", "m", "p", "l", "a", "t", "e">>, ListE(<< ElE(<<"h", "2">>, LitS(<<"C", "o", "m", "p", "l", "e", "x", " ", "H", "e", "a", "d", "e", "r">>)),
                                       ElE(<<"p">>, LitS(<<"W", "i", "t", "h", " ", "s", "u", "b", "t", "i", "t", "l", "e">>)) >>))),
     Assign("_slot_children_2000", ListE(<<>>)),
     AppendS("_slot_children_2000", ElE(<<"p">>, LitS(<<"M", "a", "i", "n", " ", "c", "o", "n", "t", "e", "n", "t">>))),
     AppendS("_slot_children_2000", ElE(<<"p">>, LitS(<<"M", "o", "r", "e", " ", "c", "o", "n", "t", "e", "n", "t">>))),
     Assign("_slot_children_3000", ListE(<<>>)),
     AppendS("_slot_children_3000",
             ElE(<<"t", "e", "m", "p", "l", "a", "t", "e">>, ListE(<< ElE(<<"b", "u", "t", "t", "o", "n">>, LitS(<<"S", "a", "v", "e">>)),
                                       ElE(<<"b", "u", "t", "t", "o", "n">>, LitS(<<"C", "a", "n", "c", "e", "l">>)) >>))),
     ReturnS(NewE("SlotCard", << <<"header", FragmentE(Var("_slot_children_1000"))>>,
                                 <<"children", FragmentE(Var("_slot_children_2000"))>>,
                                 <<"footer", FragmentE(Var("_slot_children_3000"))>> >>)) >>


\* src/compiler/testdata/expected/slots/conditional_slots.py, class Panel
Panel_render ==
  << Assign("_div_children_1000", ListE(<<>>)),
     Assign("_div_children_2000", ListE(<<>>)),
     AppendS("_div_children_2000", ElE(<<"h", "3">>, EscapeE(Self("title")))),
     IfS(CallE("has_slot", <<LitS(<<"a", "c", "t", "i", "o", "n", "s">>)>>),
         << AppendS("_div_children_2000",
                    ElA(<<"d", "i", "v">>, SlotRef("actions", LitS(<<>>)),
                        << <<<<"c", "l", "a", "s", "s">>, LitS(<<"p", "a", "n", "e", "l", "-", "a", "c", "t", "i", "o", "n", "s">>)>> >>)) >>,
         << >>),
     AppendS("_div_children_1000",
             ElA(<<"d", "i", "v">>, Var("_div_children_2000"), << <<<<"c", "l", "a", "s", "s">>, LitS(<<"p", "a", "n", "e", "l", "-", "h", "e", "a", "d", "e", "r">>)>> >>)),
     AppendS("_div_children_1000",
             ElA(<<"d", "i", "v">>, SlotRef("children", LitS(<<>>)), << <<<<"c", "l", "a", "s", "s">>, LitS(<<"p", "a", "n", "e", "l", "-", "b", "o", "d", "y">>)>> >>)),
     IfS(CallE("has_slot", <<LitS(<<"f", "o", "o", "t", "e", "r">>)>>),
         << AppendS("_div_children_1000",
                    ElA(<<"d", "i", "v">>, SlotRef("footer", LitS(<<>>)),
                        << <<<<"c", "l", "a", "s", "s">>, LitS(<<"p", "a", "n", "e", "l", "-", "f", "o", "o", "t", "e", "r">>)>> >>)) >>,
         << AppendS("_div_children_1000",
                    ElA(<<"d", "i", "v">>, ElE(<<"p">>, LitS(<<"N", "o", " ", "f", "o", "o", "t", "e", "r", " ", "c", "o", "n", "t", "e", "n", "t", " ", "p", "r", "o", "v", "i", "d", "e", "d", ".">>)),
                        << <<<<"c", "l", "a", "s", "s">>, LitS(<<"p", "a", "n", "e", "l", "-", "f", "o", "o", "t", "e", "r", " ", "t", "e", "x", "t", "-", "m", "u", "t", "e", "d">>)>> >>)) >>),
     ReturnS(ElA(<<"d", "i", "v">>, Var("_div_children_1000"), << <<<<"c", "l", "a", "s", "s">>, LitS(<<"p", "a", "n", "e", "l">>)>> >>)) >>

\* src/compiler/testdata/expected/slots/conditional_slots.py, class Example
Example_render ==
  << Assign("_slot_children_3000", ListE(<<>>)),
     AppendS("_slot_children_3000", ElE(<<"p">>, LitS(<<"T", "h", "i", "s", " ", "i", "s", " ", "t", "h", "e", " ", "m", "a", "i", "n", " ", "c", "o", "n", "t", "e", "n", "t">>))),
     Assign("_slot_children_4000", ListE(<<>>)),
     AppendS("_slot_children_4000", ElE(<<"b", "u", "t", "t", "o", "n">>, LitS(<<"E", "d", "i", "t">>))),
     Assign("_slot_children_5000", ListE(<<>>)),
     AppendS("_slot_children_5000", ElE(<<"p">>, LitS(<<"C", "u", "s", "t", "o", "m", " ", "f", "o", "o", "t", "e", "r">>))),
     ReturnS(NewE("Panel", << <<"title", LitS(<<"M", "y", " ", "P", "a", "n", "e", "l">>)>>,
                              <<"children", FragmentE(Var("_slot_children_3000"))>>,
                              <<"actions", FragmentE(Var("_slot_children_4000"))>>,
                              <<"footer", FragmentE(Var("_slot_children_5000"))>> >>)) >>

\* a subclass of BaseView whose _render returns the value it was given:
\* BaseView._render may return an Element or a plain string (runtime.py:233-243)
StubView_render == << ReturnS(Self("result")) >>

\* ValidationErrors._render with the id of the div given to the list as well
ValidationErrors_render_SameId ==
  << Assign("_root_children_1000", ListE(<<>>)),
     Assign("_div_children_2000", ListE(<<>>)),
     AppendS("_div_children_2000", ElE(<<"h", "3">>, LitS(<<"P", "l", "e", "a", "s", "e", " ", "c", "o", "r", "r", "e", "c", "t", " ", "t", "h", "e", " ", "f", "o", "l", "l", "o", "w", "i", "n", "g", " ", "e", "r", "r", "o", "r", "s", ":">>))),
     Assign("_ul_children_2000", ListE(<<>>)),
     ForItemsS("field", "error", Self("errors"),
               << AppendS("_ul_children_2000",
                          ElE(<<"l", "i">>, FStrE(<<EscapeE(Var("field")), LitS(<<":", " ">>), EscapeE(Var("error"))>>))) >>),
     AppendS("_div_children_2000", ElE(<<"u", "l">>, Var("_ul_children_2000"))),
     AppendS("_root_children_1000",
             ElA(<<"d", "i", "v">>, Var("_div_children_2000"), << <<<<"c", "l", "a", "s", "s">>, LitS(<<"e", "r", "r", "o", "r", "-", "b", "a", "n", "n", "e", "r">>)>> >>)),
     ReturnS(FragmentE(Var("_root_children_1000"))) >>


\* src/compiler/testdata/expected/htmx/form_validation.py, ValidationErrors
ValidationErrors_render ==
  << Assign("_root_children_1000", ListE(<<>>)),
     Assign("_div_children_2000", ListE(<<>>)),
     AppendS("_div_children_2000", ElE(<<"h", "3">>, LitS(<<"P", "l", "e", "a", "s", "e", " ", "c", "o", "r", "r", "e", "c", "t", " ", "t", "h", "e", " ", "f", "o", "l", "l", "o", "w", "i", "n", "g", " ", "e", "r", "r", "o", "r", "s", ":">>))),
     Assign("_ul_children_3000", ListE(<<>>)),
     ForItemsS("field", "error", Self("errors"),
               << AppendS("_ul_children_3000",
                          ElE(<<"l", "i">>, FStrE(<<EscapeE(Var("field")), LitS(<<":", " ">>), EscapeE(Var("error"))>>))) >>),
     AppendS("_div_children_2000", ElE(<<"u", "l">>, Var("_ul_children_3000"))),
     AppendS("_root_children_1000",
             ElA(<<"d", "i", "v">>, Var("_div_children_2000"), << <<<<"c", "l", "a", "s", "s">>, LitS(<<"e", "r", "r", "o", "r", "-", "b", "a", "n", "n", "e", "r">>)>> >>)),
     ReturnS(FragmentE(Var("_root_children_1000"))) >>

\* one group of the form: a label, a validated control and its message
FormGroup(acc, label, for, control, attrs) ==
  << Assign(acc, ListE(<<>>)),
     AppendS(acc, ElA(<<"l", "a", "b", "e", "l">>, LitS(label), << <<<<"f", "o", "r">>, LitS(for)>> >>)),
     AppendS(acc, ElA(control, LitS(<<>>), attrs)),
     AppendS(acc, ElA(<<"d", "i", "v">>, LitS(<<>>), << <<<<"c", "l", "a", "s", "s">>, LitS(<<"v", "a", "l", "i", "d", "a", "t", "i", "o", "n", "-", "m", "e", "s", "s", "a", "g", "e">>)>> >>)),
     AppendS("_form_children_6000",
             ElA(<<"d", "i", "v">>, Var(acc), << <<<<"c", "l", "a", "s", "s">>, LitS(<<"f", "o", "r", "m", "-", "g", "r", "o", "u", "p">>)>> >>)) >>

\* the htmx attributes of a validated control
Validated(url) ==
  << <<<<"r", "e", "q", "u", "i", "r", "e", "d">>, Lit(PyBool(TRUE))>>,
     <<<<"h", "x", "-", "p", "o", "s", "t">>, LitS(url)>>,
     <<<<"h", "x", "-", "t", "r", "i", "g", "g", "e", "r">>, LitS(<<"b", "l", "u", "r">>)>>,
     <<<<"h", "x", "-", "t", "a", "r", "g", "e", "t">>, LitS(<<"n", "e", "x", "t", " ", ".", "v", "a", "l", "i", "d", "a", "t", "i", "o", "n", "-", "m", "e", "s", "s", "a", "g", "e">>)>> >>

\* src/compiler/testdata/expected/htmx/form_validation.py, ContactForm
ContactForm_render ==
  << Assign("_root_children_4000", ListE(<<>>)),
     Assign("_div_children_5000", ListE(<<>>)),
     AppendS("_div_children_5000", ElE(<<"h", "1">>, LitS(<<"C", "o", "n", "t", "a", "c", "t", " ", "U", "s">>))),
     Assign("_form_children_6000", ListE(<<>>)) >>
  \o FormGroup("_div_children_7000", <<"N", "a", "m", "e", " ", "*">>, <<"n", "a", "m", "e">>, <<"i", "n", "p", "u", "t">>,
               << <<<<"t", "y", "p", "e">>, LitS(<<"t", "e", "x", "t">>)>>, <<<<"i", "d">>, LitS(<<"n", "a", "m", "e">>)>>,
                  <<<<"n", "a", "m", "e">>, LitS(<<"n", "a", "m", "e">>)>> >> \o Validated(<<"/", "a", "p", "i", "/", "v", "a", "l", "i", "d", "a", "t", "e", "/", "n", "a", "m", "e">>))
  \o FormGroup("_div_children_8000", <<"E", "m", "a", "i", "l", " ", "*">>, <<"e", "m", "a", "i", "l">>, <<"i", "n", "p", "u", "t">>,
               << <<<<"t", "y", "p", "e">>, LitS(<<"e", "m", "a", "i", "l">>)>>, <<<<"i", "d">>, LitS(<<"e", "m", "a", "i", "l">>)>>,
                  <<<<"n", "a", "m", "e">>, LitS(<<"e", "m", "a", "i", "l">>)>> >> \o Validated(<<"/", "a", "p", "i", "/", "v", "a", "l", "i", "d", "a", "t", "e", "/", "e", "m", "a", "i", "l">>))
  \o FormGroup("_div_children_9000", <<"M", "e", "s", "s", "a", "g", "e", " ", "*">>, <<"m", "e", "s", "s", "a", "g", "e">>, <<"t", "e", "x", "t", "a", "r", "e", "a">>,
               << <<<<"i", "d">>, LitS(<<"m", "e", "s", "s", "a", "g", "e">>)>>, <<<<"n", "a", "m", "e">>, LitS(<<"m", "e", "s", "s", "a", "g", "e">>)>> >>
                 \o Validated(<<"/", "a", "p", "i", "/", "v", "a", "l", "i", "d", "a", "t", "e", "/", "m", "e", "s", "s", "a", "g", "e">>))
  \o << AppendS("_form_children_6000",
                ElA(<<"b", "u", "t", "t", "o", "n">>, EscapeE(LitS(<<"S", "e", "n", "d", " ", "M", "e", "s", "s", "a", "g", "e">>)),
                    << <<<<"t", "y", "p", "e">>, LitS(<<"s", "u", "b", "m", "i", "t">>)>>, <<<<"h", "x", "-", "i", "n", "d", "i", "c", "a", "t", "o", "r">>, LitS(<<".", "s", "u", "b", "m", "i", "t", "-", "s", "p", "i", "n", "n", "e", "r">>)>> >>)),
        AppendS("_form_children_6000",
                ElA(<<"s", "p", "a", "n">>, LitS(<<"S", "e", "n", "d", "i", "n", "g", ".", ".", ".">>),
                    << <<<<"c", "l", "a", "s", "s">>, LitS(<<"s", "u", "b", "m", "i", "t", "-", "s", "p", "i", "n", "n", "e", "r">>)>>, <<<<"s", "t", "y", "l", "e">>, LitS(<<"d", "i", "s", "p", "l", "a", "y", ":", "n", "o", "n", "e", ";">>)>> >>)),
        AppendS("_div_children_5000",
                ElA(<<"f", "o", "r", "m">>, Var("_form_children_6000"),
                    << <<<<"h", "x", "-", "p", "o", "s", "t">>, LitS(<<"/", "a", "p", "i", "/", "c", "o", "n", "t", "a", "c", "t">>)>>, <<<<"h", "x", "-", "s", "w", "a", "p">>, LitS(<<"o", "u", "t", "e", "r", "H", "T", "M", "L">>)>>,
                       <<<<"h", "x", "-", "t", "a", "r", "g", "e", "t">>, LitS(<<"t", "h", "i", "s">>)>> >>)),
        AppendS("_root_children_4000", ElE(<<"d", "i", "v">>, Var("_div_children_5000"))),
        ReturnS(FragmentE(Var("_root_children_4000"))) >>

\* src/compiler/testdata/expected/control_flow/match_statements.py
MatchView_render ==
  << Assign("_root_children_1000", ListE(<<>>)),
     Assign("_div_children_2000", ListE(<<>>)),
     MatchS(Self("status"),
            << CaseLit(PyStrV(<<"l", "o", "a", "d", "i", "n", "g">>),
                       << AppendS("_div_children_2000",
                                  ElA(<<"d", "i", "v">>, LitS(<<"L", "o", "a", "d", "i", "n", "g", ".", ".", ".">>), << <<<<"c", "l", "a", "s", "s">>, LitS(<<"s", "p", "i", "n", "n", "e", "r">>)>> >>)) >>),
               CaseLit(PyStrV(<<"s", "u", "c", "c", "e", "s", "s">>),
                       << Assign("_div_children_3000", ListE(<<>>)),
                          AppendS("_div_children_3000", ElE(<<"h", "2">>, LitS(<<"S", "u", "c", "c", "e", "s", "s", "!">>))),
                          AppendS("_div_children_3000",
                                  ElE(<<"p">>, FStrE(<<LitS(<<"D", "a", "t", "a", " ", "l", "o", "a", "d", "e", "d", ":", " ">>), EscapeE(LenE(Self("data"))),
                                                      LitS(<<" ", "i", "t", "e", "m", "s">>)>>))),
                          AppendS("_div_children_2000",
                                  ElA(<<"d", "i", "v">>, Var("_div_children_3000"), << <<<<"c", "l", "a", "s", "s">>, LitS(<<"s", "u", "c", "c", "e", "s", "s">>)>> >>)) >>),
               CaseLit(PyStrV(<<"e", "r", "r", "o", "r">>),
                       << Assign("_div_children_4000", ListE(<<>>)),
                          AppendS("_div_children_4000", ElE(<<"h", "2">>, LitS(<<"E", "r", "r", "o", "r", " ", "o", "c", "c", "u", "r", "r", "e", "d">>))),
                          AppendS("_div_children_4000", ElE(<<"p">>, LitS(<<"F", "a", "i", "l", "e", "d", " ", "t", "o", " ", "l", "o", "a", "d", " ", "d", "a", "t", "a">>))),
                          AppendS("_div_children_2000",
                                  ElA(<<"d", "i", "v">>, Var("_div_children_4000"), << <<<<"c", "l", "a", "s", "s">>, LitS(<<"e", "r", "r", "o", "r">>)>> >>)) >>),
               CaseWild(<< AppendS("_div_children_2000",
                                   ElA(<<"d", "i", "v">>,
                                       ElE(<<"p">>, FStrE(<<LitS(<<"U", "n", "k", "n", "o", "w", "n", " ", "s", "t", "a", "t", "u", "s", ":", " ">>), EscapeE(Self("status"))>>)),
                                       << <<<<"c", "l", "a", "s", "s">>, LitS(<<"u", "n", "k", "n", "o", "w", "n">>)>> >>)) >>) >>),
     AppendS("_root_children_1000", ElE(<<"d", "i", "v">>, Var("_div_children_2000"))),
     ReturnS(FragmentE(Var("_root_children_1000"))) >>


\* src/compiler/testdata/expected/composition/basic_composition.py, Button
Button_render ==
  << ReturnS(ElA(<<"b", "u", "t", "t", "o", "n">>, EscapeE(Self("text")),
                 << <<<<"c", "l", "a", "s", "s">>, EscapeE(FStrE(<<LitS(<<"b", "t", "n", " ", "b", "t", "n", "-">>), Self("variant")>>))>> >>)) >>

\* src/compiler/testdata/expected/composition/basic_composition.py, Card
CompositionCard_render ==
  << Assign("_root_children_1000", ListE(<<>>)),
     Assign("_div_children_2000", ListE(<<>>)),
     AppendS("_div_children_2000",
             ElA(<<"d", "i", "v">>, ElE(<<"h", "3">>, EscapeE(Self("title"))), << <<<<"c", "l", "a", "s", "s">>, LitS(<<"c", "a", "r", "d", "-", "h", "e", "a", "d", "e", "r">>)>> >>)),
     AppendS("_div_children_2000",
             ElA(<<"d", "i", "v">>, ElE(<<"p">>, LitS(<<"C", "a", "r", "d", " ", "c", "o", "n", "t", "e", "n", "t", " ", "g", "o", "e", "s", " ", "h", "e", "r", "e">>)),
                 << <<<<"c", "l", "a", "s", "s">>, LitS(<<"c", "a", "r", "d", "-", "b", "o", "d", "y">>)>> >>)),
     AppendS("_root_children_1000",
             ElA(<<"d", "i", "v">>, Var("_div_children_2000"), << <<<<"c", "l", "a", "s", "s">>, LitS(<<"c", "a", "r", "d">>)>> >>)),
     ReturnS(FragmentE(Var("_root_children_1000"))) >>

\* src/compiler/testdata/expected/composition/basic_composition.py, App
CompositionApp_render ==
  << Assign("_root_children_3000", ListE(<<>>)),
     Assign("_div_children_4000", ListE(<<>>)),
     AppendS("_div_children_4000", ElE(<<"h", "1">>, LitS(<<"M", "y", " ", "A", "p", "p", "l", "i", "c", "a", "t", "i", "o", "n">>))),
     AppendS("_div_children_4000", NewE("basic_composition.Card", << <<"title", LitS(<<"W", "e", "l", "c", "o", "m", "e">>)>> >>)),
     AppendS("_div_children_4000",
             NewE("Button", << <<"text", LitS(<<"C", "l", "i", "c", "k", " ", "m", "e">>)>>, <<"variant", LitS(<<"s", "u", "c", "c", "e", "s", "s">>)>> >>)),
     AppendS("_div_children_4000",
             NewE("Button", << <<"text", LitS(<<"C", "a", "n", "c", "e", "l">>)>>, <<"variant", LitS(<<"d", "a", "n", "g", "e", "r">>)>> >>)),
     AppendS("_root_children_3000",
             ElA(<<"d", "i", "v">>, Var("_div_children_4000"), << <<<<"c", "l", "a", "s", "s">>, LitS(<<"a", "p", "p">>)>> >>)),
     ReturnS(FragmentE(Var("_root_children_3000"))) >>

\* ConditionalView._render with elif emitted as a second if beside the
\* first, not inside its else
Conditionals_render_Flat ==
  << Assign("_root_children_2000", ListE(<<>>)),
     Assign("_div_children_3000", ListE(<<>>)),
     IfS(EqE(Self("user_type"), LitS(<<"g", "u", "e", "s", "t">>)),
         << AppendS("_div_children_3000", ElE(<<"p">>, LitS(<<"W", "e", "l", "c", "o", "m", "e", ",", " ", "g", "u", "e", "s", "t", "!">>))) >>,
         << >>),
     IfS(EqE(Self("user_type"), LitS(<<"u", "s", "e", "r">>)),
         << AppendS("_div_children_3000", ElE(<<"p">>, LitS(<<"H", "e", "l", "l", "o", ",", " ", "r", "e", "g", "i", "s", "t", "e", "r", "e", "d", " ", "u", "s", "e", "r", "!">>))) >>,
         << AppendS("_div_children_3000",
                    ElE(<<"p">>, FStrE(<<LitS(<<"W", "e", "l", "c", "o", "m", "e", ",", " ">>), EscapeE(Self("user_type")),
                                        LitS(<<"!">>)>>))) >>),
     IfS(Self("is_admin"),
         << AppendS("_div_children_3000",
                    ElA(<<"d", "i", "v">>,
                        ListE(<<ElE(<<"h", "3">>, LitS(<<"A", "d", "m", "i", "n", " ", "C", "o", "n", "t", "r", "o", "l", "s">>)),
                                ElE(<<"b", "u", "t", "t", "o", "n">>, LitS(<<"A", "d", "m", "i", "n", " ", "A", "c", "t", "i", "o", "n", "s">>))>>),
                        << <<<<"c", "l", "a", "s", "s">>, LitS(<<"a", "d", "m", "i", "n", "-", "p", "a", "n", "e", "l">>)>> >>)) >>,
         << AppendS("_div_children_3000", ElE(<<"p">>, LitS(<<"R", "e", "g", "u", "l", "a", "r", " ", "u", "s", "e", "r", " ", "v", "i", "e", "w">>))) >>),
     AppendS("_root_children_2000", ElE(<<"d", "i", "v">>, Var("_div_children_3000"))),
     ReturnS(FragmentE(Var("_root_children_2000"))) >>


\* src/compiler/testdata/expected/control_flow/conditionals.py
Conditionals_render ==
  << Assign("_root_children_2000", ListE(<<>>)),
     Assign("_div_children_3000", ListE(<<>>)),
     IfS(EqE(Self("user_type"), LitS(<<"g", "u", "e", "s", "t">>)),
         << AppendS("_div_children_3000", ElE(<<"p">>, LitS(<<"W", "e", "l", "c", "o", "m", "e", ",", " ", "g", "u", "e", "s", "t", "!">>))) >>,
         << IfS(EqE(Self("user_type"), LitS(<<"u", "s", "e", "r">>)),
                << AppendS("_div_children_3000", ElE(<<"p">>, LitS(<<"H", "e", "l", "l", "o", ",", " ", "r", "e", "g", "i", "s", "t", "e", "r", "e", "d", " ", "u", "s", "e", "r", "!">>))) >>,
                << AppendS("_div_children_3000",
                           ElE(<<"p">>, FStrE(<<LitS(<<"W", "e", "l", "c", "o", "m", "e", ",", " ">>), EscapeE(Self("user_type")),
                                               LitS(<<"!">>)>>))) >>) >>),
     IfS(Self("is_admin"),
         << AppendS("_div_children_3000",
                    ElA(<<"d", "i", "v">>,
                        ListE(<<ElE(<<"h", "3">>, LitS(<<"A", "d", "m", "i", "n", " ", "C", "o", "n", "t", "r", "o", "l", "s">>)),
                                ElE(<<"b", "u", "t", "t", "o", "n">>, LitS(<<"A", "d", "m", "i", "n", " ", "A", "c", "t", "i", "o", "n", "s">>))>>),
                        << <<<<"c", "l", "a", "s", "s">>, LitS(<<"a", "d", "m", "i", "n", "-", "p", "a", "n", "e", "l">>)>> >>)) >>,
         << AppendS("_div_children_3000", ElE(<<"p">>, LitS(<<"R", "e", "g", "u", "l", "a", "r", " ", "u", "s", "e", "r", " ", "v", "i", "e", "w">>))) >>),
     AppendS("_root_children_2000", ElE(<<"d", "i", "v">>, Var("_div_children_3000"))),
     ReturnS(FragmentE(Var("_root_children_2000"))) >>

\* EarlyReturnView._render without its first return
EarlyReturnView_render_FallThrough ==
  << Assign("_root_children_1000", ListE(<<>>)),
     IfS(AndE(NotE(Self("items")), NotE(Self("show_empty"))),
         << AppendS("_root_children_1000",
                    ElA(<<"d", "i", "v">>, LitS(<<"N", "o", " ", "c", "o", "n", "t", "e", "n", "t", " ", "t", "o", " ", "d", "i", "s", "p", "l", "a", "y">>),
                        << <<<<"c", "l", "a", "s", "s">>, LitS(<<"e", "m", "p", "t", "y", "-", "m", "e", "s", "s", "a", "g", "e">>)>> >>)) >>,
         << >>),
     IfS(NotE(Self("items")),
         << Assign("_div_children_2000", ListE(<<>>)),
            AppendS("_div_children_2000", ElE(<<"h", "2">>, LitS(<<"N", "o", " ", "i", "t", "e", "m", "s", " ", "f", "o", "u", "n", "d">>))),
            AppendS("_div_children_2000", ElE(<<"p">>, LitS(<<"T", "r", "y", " ", "a", "d", "d", "i", "n", "g", " ", "s", "o", "m", "e", " ", "i", "t", "e", "m", "s">>))),
            AppendS("_root_children_1000",
                    ElA(<<"d", "i", "v">>, Var("_div_children_2000"), << <<<<"c", "l", "a", "s", "s">>, LitS(<<"e", "m", "p", "t", "y", "-", "s", "t", "a", "t", "e">>)>> >>)),
            ReturnS(FragmentE(Var("_root_children_1000"))) >>,
         << >>),
     Assign("_div_children_3000", ListE(<<>>)),
     AppendS("_div_children_3000",
             ElE(<<"h", "2">>, FStrE(<<LitS(<<"I", "t", "e", "m", "s", " ", "(">>), EscapeE(LenE(Self("items"))), LitS(<<")">>)>>))),
     ForS("item", Self("items"),
          << AppendS("_div_children_3000",
                     ElA(<<"d", "i", "v">>, EscapeE(Var("item")), << <<<<"c", "l", "a", "s", "s">>, LitS(<<"i", "t", "e", "m">>)>> >>)) >>),
     AppendS("_root_children_1000",
             ElA(<<"d", "i", "v">>, Var("_div_children_3000"), << <<<<"c", "l", "a", "s", "s">>, LitS(<<"i", "t", "e", "m", "s", "-", "l", "i", "s", "t">>)>> >>)),
     ReturnS(FragmentE(Var("_root_children_1000"))) >>


\* src/compiler/testdata/expected/control_flow/early_return.py
EarlyReturnView_render ==
  << Assign("_root_children_1000", ListE(<<>>)),
     IfS(AndE(NotE(Self("items")), NotE(Self("show_empty"))),
         << AppendS("_root_children_1000",
                    ElA(<<"d", "i", "v">>, LitS(<<"N", "o", " ", "c", "o", "n", "t", "e", "n", "t", " ", "t", "o", " ", "d", "i", "s", "p", "l", "a", "y">>),
                        << <<<<"c", "l", "a", "s", "s">>, LitS(<<"e", "m", "p", "t", "y", "-", "m", "e", "s", "s", "a", "g", "e">>)>> >>)),
            ReturnS(FragmentE(Var("_root_children_1000"))) >>,
         << >>),
     IfS(NotE(Self("items")),
         << Assign("_div_children_2000", ListE(<<>>)),
            AppendS("_div_children_2000", ElE(<<"h", "2">>, LitS(<<"N", "o", " ", "i", "t", "e", "m", "s", " ", "f", "o", "u", "n", "d">>))),
            AppendS("_div_children_2000", ElE(<<"p">>, LitS(<<"T", "r", "y", " ", "a", "d", "d", "i", "n", "g", " ", "s", "o", "m", "e", " ", "i", "t", "e", "m", "s">>))),
            AppendS("_root_children_1000",
                    ElA(<<"d", "i", "v">>, Var("_div_children_2000"), << <<<<"c", "l", "a", "s", "s">>, LitS(<<"e", "m", "p", "t", "y", "-", "s", "t", "a", "t", "e">>)>> >>)),
            ReturnS(FragmentE(Var("_root_children_1000"))) >>,
         << >>),
     Assign("_div_children_3000", ListE(<<>>)),
     AppendS("_div_children_3000",
             ElE(<<"h", "2">>, FStrE(<<LitS(<<"I", "t", "e", "m", "s", " ", "(">>), EscapeE(LenE(Self("items"))), LitS(<<")">>)>>))),
     ForS("item", Self("items"),
          << AppendS("_div_children_3000",
                     ElA(<<"d", "i", "v">>, EscapeE(Var("item")), << <<<<"c", "l", "a", "s", "s">>, LitS(<<"i", "t", "e", "m">>)>> >>)) >>),
     AppendS("_root_children_1000",
             ElA(<<"d", "i", "v">>, Var("_div_children_3000"), << <<<<"c", "l", "a", "s", "s">>, LitS(<<"i", "t", "e", "m", "s", "-", "l", "i", "s", "t">>)>> >>)),
     ReturnS(FragmentE(Var("_root_children_1000"))) >>


\* src/compiler/testdata/expected/control_flow/try_except.py, ErrorHandlingView
ErrorHandlingView_render ==
  << Assign("_root_children_1000", ListE(<<>>)),
     Assign("_div_children_2000", ListE(<<>>)),
     TryS(<< Assign("result", InvokeE("risky_operation", <<Self("input_value")>>)),
             Assign("_div_children_3000", ListE(<<>>)),
             AppendS("_div_children_3000", ElE(<<"h", "2">>, LitS(<<"S", "u", "c", "c", "e", "s", "s", "!">>))),
             AppendS("_div_children_3000",
                     ElE(<<"p">>, FStrE(<<LitS(<<"R", "e", "s", "u", "l", "t", ":", " ">>), EscapeE(Var("result"))>>))),
             AppendS("_div_children_2000",
                     ElA(<<"d", "i", "v">>, Var("_div_children_3000"), << <<<<"c", "l", "a", "s", "s">>, LitS(<<"s", "u", "c", "c", "e", "s", "s">>)>> >>)) >>,
          << Handler({"ValueError"}, "e",
                     << Assign("_div_children_4000", ListE(<<>>)),
                        AppendS("_div_children_4000", ElE(<<"h", "2">>, LitS(<<"E", "r", "r", "o", "r">>))),
                        AppendS("_div_children_4000",
                                ElE(<<"p">>, FStrE(<<LitS(<<"V", "a", "l", "u", "e", "E", "r", "r", "o", "r", ":", " ">>), EscapeE(StrE(Var("e")))>>))),
                        AppendS("_div_children_2000",
                                ElA(<<"d", "i", "v">>, Var("_div_children_4000"),
                                    << <<<<"c", "l", "a", "s", "s">>, LitS(<<"e", "r", "r", "o", "r">>)>> >>)) >>),
             Handler({"Exception"}, "e",
                     << Assign("_div_children_5000", ListE(<<>>)),
                        AppendS("_div_children_5000", ElE(<<"h", "2">>, LitS(<<"U", "n", "e", "x", "p", "e", "c", "t", "e", "d", " ", "E", "r", "r", "o", "r">>))),
                        AppendS("_div_children_5000",
                                ElE(<<"p">>, FStrE(<<LitS(<<"E", "r", "r", "o", "r", ":", " ">>), EscapeE(StrE(Var("e")))>>))),
                        AppendS("_div_children_2000",
                                ElA(<<"d", "i", "v">>, Var("_div_children_5000"),
                                    << <<<<"c", "l", "a", "s", "s">>, LitS(<<"e", "r", "r", "o", "r">>)>> >>)) >>) >>,
          << AppendS("_div_children_2000",
                     ElA(<<"p">>, LitS(<<"O", "p", "e", "r", "a", "t", "i", "o", "n", " ", "c", "o", "m", "p", "l", "e", "t", "e", "d">>), << <<<<"c", "l", "a", "s", "s">>, LitS(<<"f", "o", "o", "t", "e", "r">>)>> >>)) >>),
     AppendS("_root_children_1000", ElE(<<"d", "i", "v">>, Var("_div_children_2000"))),
     ReturnS(FragmentE(Var("_root_children_1000"))) >>

\* src/compiler/testdata/expected/control_flow/try_in_element.py
SafeDisplay_render ==
  << Assign("_root_children_1000", ListE(<<>>)),
     Assign("_div_children_2000", ListE(<<>>)),
     TryS(<< AppendS("_div_children_2000",
                     ElE(<<"p">>, FStrE(<<LitS(<<"V", "a", "l", "u", "e", ":", " ">>), EscapeE(IntE(Self("value")))>>))) >>,
          << Handler({"ValueError"}, "",
                     << AppendS("_div_children_2000", ElE(<<"p">>, LitS(<<"I", "n", "v", "a", "l", "i", "d", " ", "v", "a", "l", "u", "e">>))) >>) >>,
          << >>),
     AppendS("_root_children_1000", ElE(<<"d", "i", "v">>, Var("_div_children_2000"))),
     ReturnS(FragmentE(Var("_root_children_1000"))) >>

\* BooleanAttributes._render with the attribute values passed to el as they
\* are, without escape(...)
BooleanAttributes_render_Bare ==
  << Assign("_root_children_1000", ListE(<<>>)),
     Assign("_form_children_2000", ListE(<<>>)),
     AppendS("_form_children_2000",
             ElA(<<"i", "n", "p", "u", "t">>, LitS(<<>>),
                 << <<<<"t", "y", "p", "e">>, LitS(<<"t", "e", "x", "t">>)>>,
                    <<<<"r", "e", "a", "d", "o", "n", "l", "y">>, NotE(Self("is_editable"))>>,
                    <<<<"r", "e", "q", "u", "i", "r", "e", "d">>, Self("is_required")>>,
                    <<<<"d", "i", "s", "a", "b", "l", "e", "d">>, Lit(PyBool(FALSE))>>,
                    <<<<"a", "u", "t", "o", "f", "o", "c", "u", "s">>, Lit(PyBool(TRUE))>> >>)),
     AppendS("_form_children_2000",
             ElA(<<"i", "n", "p", "u", "t">>, LitS(<<>>),
                 << <<<<"t", "y", "p", "e">>, LitS(<<"c", "h", "e", "c", "k", "b", "o", "x">>)>>,
                    <<<<"c", "h", "e", "c", "k", "e", "d">>, Self("is_editable")>> >>)),
     AppendS("_form_children_2000",
             ElA(<<"b", "u", "t", "t", "o", "n">>, EscapeE(LitS(<<"S", "u", "b", "m", "i", "t">>)),
                 << <<<<"t", "y", "p", "e">>, LitS(<<"s", "u", "b", "m", "i", "t">>)>>,
                    <<<<"d", "i", "s", "a", "b", "l", "e", "d">>, NotE(Self("is_editable"))>> >>)),
     AppendS("_root_children_1000", ElE(<<"f", "o", "r", "m">>, Var("_form_children_2000"))),
     ReturnS(FragmentE(Var("_root_children_1000"))) >>

\* src/compiler/testdata/expected/attributes/boolean_attributes.py
BooleanAttributes_render ==
  << Assign("_root_children_1000", ListE(<<>>)),
     Assign("_form_children_2000", ListE(<<>>)),
     AppendS("_form_children_2000",
             ElA(<<"i", "n", "p", "u", "t">>, LitS(<<>>),
                 << <<<<"t", "y", "p", "e">>, LitS(<<"t", "e", "x", "t">>)>>,
                    <<<<"r", "e", "a", "d", "o", "n", "l", "y">>, EscapeE(NotE(Self("is_editable")))>>,
                    <<<<"r", "e", "q", "u", "i", "r", "e", "d">>, EscapeE(Self("is_required"))>>,
                    <<<<"d", "i", "s", "a", "b", "l", "e", "d">>, EscapeE(Lit(PyBool(FALSE)))>>,
                    <<<<"a", "u", "t", "o", "f", "o", "c", "u", "s">>, EscapeE(Lit(PyBool(TRUE)))>> >>)),
     AppendS("_form_children_2000",
             ElA(<<"i", "n", "p", "u", "t">>, LitS(<<>>),
                 << <<<<"t", "y", "p", "e">>, LitS(<<"c", "h", "e", "c", "k", "b", "o", "x">>)>>,
                    <<<<"c", "h", "e", "c", "k", "e", "d">>, EscapeE(Self("is_editable"))>> >>)),
     AppendS("_form_children_2000",
             ElA(<<"b", "u", "t", "t", "o", "n">>, EscapeE(LitS(<<"S", "u", "b", "m", "i", "t">>)),
                 << <<<<"t", "y", "p", "e">>, LitS(<<"s", "u", "b", "m", "i", "t">>)>>,
                    <<<<"d", "i", "s", "a", "b", "l", "e", "d">>, EscapeE(NotE(Self("is_editable")))>> >>)),
     AppendS("_root_children_1000", ElE(<<"f", "o", "r", "m">>, Var("_form_children_2000"))),
     ReturnS(FragmentE(Var("_root_children_1000"))) >>

\* src/compiler/testdata/expected/attributes/static_attributes.py
StaticAttributes_render ==
  << Assign("_root_children_1000", ListE(<<>>)),
     Assign("_div_children_2000", ListE(<<>>)),
     AppendS("_div_children_2000",
             ElA(<<"i", "m", "g">>, LitS(<<>>),
                 << <<<<"s", "r", "c">>, LitS(<<"/", "l", "o", "g", "o", ".", "p", "n", "g">>)>>, <<<<"a", "l", "t">>, LitS(<<"C", "o", "m", "p", "a", "n", "y", " ", "L", "o", "g", "o">>)>> >>)),
     AppendS("_div_children_2000",
             ElA(<<"i", "n", "p", "u", "t">>, LitS(<<>>),
                 << <<<<"t", "y", "p", "e">>, LitS(<<"t", "e", "x", "t">>)>>, <<<<"p", "l", "a", "c", "e", "h", "o", "l", "d", "e", "r">>, LitS(<<"E", "n", "t", "e", "r", " ", "y", "o", "u", "r", " ", "n", "a", "m", "e">>)>>,
                    <<<<"r", "e", "a", "d", "o", "n", "l", "y">>, Lit(PyBool(TRUE))>> >>)),
     AppendS("_div_children_2000",
             ElA(<<"b", "u", "t", "t", "o", "n">>, LitS(<<"S", "u", "b", "m", "i", "t">>),
                 << <<<<"t", "y", "p", "e">>, LitS(<<"s", "u", "b", "m", "i", "t">>)>>, <<<<"d", "i", "s", "a", "b", "l", "e", "d">>, Lit(PyBool(TRUE))>> >>)),
     AppendS("_root_children_1000",
             ElA(<<"d", "i", "v">>, Var("_div_children_2000"),
                 << <<<<"c", "l", "a", "s", "s">>, LitS(<<"c", "o", "n", "t", "a", "i", "n", "e", "r">>)>>, <<<<"i", "d">>, LitS(<<"m", "a", "i", "n", "-", "c", "o", "n", "t", "e", "n", "t">>)>>,
                    <<<<"d", "a", "t", "a", "-", "t", "e", "s", "t", "i", "d">>, LitS(<<"a", "p", "p">>)>> >>)),
     ReturnS(FragmentE(Var("_root_children_1000"))) >>

\* src/compiler/testdata/expected/attributes/dynamic_attributes.py
DynamicAttributes_render ==
  << Assign("_root_children_1000", ListE(<<>>)),
     Assign("item_count", Lit(PyInt(42))),
     Assign("_div_children_2000", ListE(<<>>)),
     AppendS("_div_children_2000",
             ElA(<<"i", "n", "p", "u", "t">>, LitS(<<>>),
                 << <<<<"t", "y", "p", "e">>, LitS(<<"c", "h", "e", "c", "k", "b", "o", "x">>)>>, <<<<"c", "h", "e", "c", "k", "e", "d">>, EscapeE(Self("is_active"))>> >>)),
     AppendS("_div_children_2000",
             ElA(<<"b", "u", "t", "t", "o", "n">>, EscapeE(IfE(LitS(<<"A", "c", "t", "i", "v", "e">>), Self("is_active"), LitS(<<"I", "n", "a", "c", "t", "i", "v", "e">>))),
                 << <<<<"d", "i", "s", "a", "b", "l", "e", "d">>, EscapeE(NotE(Self("is_active")))>> >>)),
     AppendS("_div_children_2000",
             ElA(<<"s", "p", "a", "n">>, LitS(<<"C", "o", "m", "p", "u", "t", "e", "d", " ", "v", "a", "l", "u", "e">>),
                 << <<<<"d", "a", "t", "a", "-", "v", "a", "l", "u", "e">>, EscapeE(MulE(Self("user_id"), Lit(PyInt(10))))>> >>)),
     AppendS("_root_children_1000",
             ElA(<<"d", "i", "v">>, Var("_div_children_2000"),
                 << <<<<"c", "l", "a", "s", "s">>, EscapeE(Self("css_class"))>>,
                    <<<<"d", "a", "t", "a", "-", "u", "s", "e", "r", "-", "i", "d">>, EscapeE(Self("user_id"))>>,
                    <<<<"d", "a", "t", "a", "-", "c", "o", "u", "n", "t">>, EscapeE(Var("item_count"))>> >>)),
     ReturnS(FragmentE(Var("_root_children_1000"))) >>


\* src/examples/homepage/components/cards.py (FeatureCard)
FeatureCard_render ==
  << Assign("_root_children_1000", ListE(<<>>)),
     Assign("_div_children_2000", ListE(<<>>)),
     AppendS("_div_children_2000", ElA(<<"d", "i", "v">>, EscapeE(Self("icon")),
        << <<<<"c", "l", "a", "s", "s">>, LitS(<<"t", "e", "x", "t", "-", "4", "x", "l", " ", "m", "b", "-", "3">>)>> >>)),
     AppendS("_div_children_2000", ElA(<<"h", "3">>, EscapeE(Self("title")),
        << <<<<"c", "l", "a", "s", "s">>, LitS(<<"t", "e", "x", "t", "-", "x", "l", " ", "f", "o", "n", "t", "-", "s", "e", "m", "i", "b", "o", "l", "d", " ", "t", "e", "x", "t", "-", "p", "u", "r", "p", "l", "e", "-", "3", "0", "0", " ", "m", "b", "-", "2">>)>> >>)),
     AppendS("_div_children_2000", ElA(<<"p">>, EscapeE(Self("description")),
        << <<<<"c", "l", "a", "s", "s">>, LitS(<<"t", "e", "x", "t", "-", "s", "l", "a", "t", "e", "-", "4", "0", "0">>)>> >>)),
     AppendS("_root_children_1000", ElA(<<"d", "i", "v">>, Var("_div_children_2000"),
        << <<<<"c", "l", "a", "s", "s">>, LitS(<<"b", "g", "-", "s", "l", "a", "t", "e", "-", "8", "0", "0", "/", "3", "0", " ", "b", "o", "r", "d", "e", "r", " ", "b", "o", "r", "d", "e", "r", "-", "p", "u", "r", "p", "l", "e", "-", "5", "0", "0", "/", "2", "0", " ", "r", "o", "u", "n", "d", "e", "d", "-", "l", "g", " ", "p", "-", "6", " ", "h", "o", "v", "e", "r", ":", "b", "o", "r", "d", "e", "r", "-", "p", "u", "r", "p", "l", "e", "-", "5", "0", "0", "/", "4", "0", " ", "t", "r", "a", "n", "s", "i", "t", "i", "o", "n", "-", "a", "l", "l">>)>> >>)),
     ReturnS(FragmentE(Var("_root_children_1000"))) >>

\* src/examples/homepage/components/cards.py (ExampleCard)
ExampleCard_render ==
  << Assign("_root_children_3000", ListE(<<>>)),
     Assign("_div_children_4000", ListE(<<>>)),
     AppendS("_div_children_4000", ElA(<<"h", "4">>, EscapeE(Self("label")),
        << <<<<"c", "l", "a", "s", "s">>, LitS(<<"t", "e", "x", "t", "-", "p", "u", "r", "p", "l", "e", "-", "4", "0", "0", " ", "f", "o", "n", "t", "-", "m", "o", "n", "o", " ", "t", "e", "x", "t", "-", "s", "m", " ", "m", "b", "-", "3">>)>> >>)),
     AppendS("_div_children_4000", ElA(<<"p", "r", "e">>, ElE(<<"c", "o", "d", "e">>, EscapeE(CallE("raw", <<Self("code")>>))),
        << <<<<"c", "l", "a", "s", "s">>, LitS(<<"t", "e", "x", "t", "-", "s", "l", "a", "t", "e", "-", "3", "0", "0", " ", "t", "e", "x", "t", "-", "x", "s", " ", "f", "o", "n", "t", "-", "m", "o", "n", "o", " ", "w", "h", "i", "t", "e", "s", "p", "a", "c", "e", "-", "p", "r", "e", " ", "o", "v", "e", "r", "f", "l", "o", "w", "-", "x", "-", "a", "u", "t", "o">>)>> >>)),
     AppendS("_root_children_3000", ElA(<<"d", "i", "v">>, Var("_div_children_4000"),
        << <<<<"c", "l", "a", "s", "s">>, LitS(<<"b", "g", "-", "s", "l", "a", "t", "e", "-", "9", "0", "0", " ", "r", "o", "u", "n", "d", "e", "d", "-", "l", "g", " ", "p", "-", "4">>)>> >>)),
     ReturnS(FragmentE(Var("_root_children_3000"))) >>

\* src/examples/homepage/components/layout.py (PageHeader)
PageHeader_render ==
  << Assign("_root_children_1000", ListE(<<>>)),
     Assign("_div_children_2000", ListE(<<>>)),
     AppendS("_div_children_2000", ElA(<<"h", "1">>, EscapeE(Self("title")),
        << <<<<"c", "l", "a", "s", "s">>, LitS(<<"t", "e", "x", "t", "-", "8", "x", "l", " ", "f", "o", "n", "t", "-", "b", "o", "l", "d", " ", "t", "e", "x", "t", "-", "t", "r", "a", "n", "s", "p", "a", "r", "e", "n", "t", " ", "b", "g", "-", "c", "l", "i", "p", "-", "t", "e", "x", "t", " ", "b", "g", "-", "g", "r", "a", "d", "i", "e", "n", "t", "-", "t", "o", "-", "r", " ", "f", "r", "o", "m", "-", "p", "u", "r", "p", "l", "e", "-", "4", "0", "0", " ", "t", "o", "-", "p", "i", "n", "k", "-", "6", "0", "0", " ", "m", "b", "-", "6">>)>> >>)),
     AppendS("_div_children_2000", ElA(<<"p">>, EscapeE(Self("subtitle")),
        << <<<<"c", "l", "a", "s", "s">>, LitS(<<"t", "e", "x", "t", "-", "3", "x", "l", " ", "t", "e", "x", "t", "-", "p", "u", "r", "p", "l", "e", "-", "3", "0", "0", " ", "m", "b", "-", "4">>)>> >>)),
     AppendS("_div_children_2000", ElA(<<"p">>, EscapeE(Self("description")),
        << <<<<"c", "l", "a", "s", "s">>, LitS(<<"t", "e", "x", "t", "-", "x", "l", " ", "t", "e", "x", "t", "-", "s", "l", "a", "t", "e", "-", "4", "0", "0", " ", "m", "b", "-", "8">>)>> >>)),
     AppendS("_div_children_2000", ElA(<<"a">>, EscapeE(Self("cta_text")),
        << <<<<"h", "r", "e", "f">>, EscapeE(Self("cta_url"))>>,
          <<<<"c", "l", "a", "s", "s">>, LitS(<<"i", "n", "l", "i", "n", "e", "-", "b", "l", "o", "c", "k", " ", "p", "x", "-", "8", " ", "p", "y", "-", "4", " ", "b", "g", "-", "g", "r", "a", "d", "i", "e", "n", "t", "-", "t", "o", "-", "r", " ", "f", "r", "o", "m", "-", "p", "u", "r", "p", "l", "e", "-", "5", "0", "0", " ", "t", "o", "-", "p", "i", "n", "k", "-", "5", "0", "0", " ", "t", "e", "x", "t", "-", "w", "h", "i", "t", "e", " ", "f", "o", "n", "t", "-", "s", "e", "m", "i", "b", "o", "l", "d", " ", "r", "o", "u", "n", "d", "e", "d", "-", "l", "g", " ", "s", "h", "a", "d", "o", "w", "-", "l", "g", " ", "h", "o", "v", "e", "r", ":", "s", "h", "a", "d", "o", "w", "-", "x", "l", " ", "t", "r", "a", "n", "s", "f", "o", "r", "m", " ", "h", "o", "v", "e", "r", ":", "s", "c", "a", "l", "e", "-", "1", "0", "5", " ", "t", "r", "a", "n", "s", "i", "t", "i", "o", "n", "-", "a", "l", "l">>)>> >>)),
     AppendS("_root_children_1000", ElA(<<"d", "i", "v">>, Var("_div_children_2000"),
        << <<<<"c", "l", "a", "s", "s">>, LitS(<<"t", "e", "x", "t", "-", "c", "e", "n", "t", "e", "r", " ", "m", "b", "-", "2", "0">>)>> >>)),
     ReturnS(FragmentE(Var("_root_children_1000"))) >>

\* src/examples/homepage/components/layout.py (CodeComparison)
CodeComparison_render ==
  << Assign("_root_children_3000", ListE(<<>>)),
     Assign("psx_example", LitS(<<"v", "i", "e", "w", " ", "G", "r", "e", "e", "t", "i", "n", "g", "(", "n", "a", "m", "e", ":", " ", "s", "t", "r", ")", ":", "\n", " ", " ", " ", " ", "<", "d", "i", "v", " ", "c", "l", "a", "s", "s", "=", "\"", "c", "a", "r", "d", "\"", ">", "\n", " ", " ", " ", " ", " ", " ", " ", " ", "<", "h", "1", ">", "H", "e", "l", "l", "o", ",", " ", "{", "n", "a", "m", "e", "}", "!", "<", "/", "h", "1", ">", "\n", " ", " ", " ", " ", "<", "/", "d", "i", "v", ">">>)),
     Assign("python_example", LitS(<<"c", "l", "a", "s", "s", " ", "G", "r", "e", "e", "t", "i", "n", "g", "(", "B", "a", "s", "e", "V", "i", "e", "w", ")", ":", "\n", " ", " ", " ", " ", "d", "e", "f", " ", "_", "_", "i", "n", "i", "t", "_", "_", "(", "s", "e", "l", "f", ",", " ", "n", "a", "m", "e", ":", " ", "s", "t", "r", ")", ":", "\n", " ", " ", " ", " ", " ", " ", " ", " ", "s", "e", "l", "f", ".", "n", "a", "m", "e", " ", "=", " ", "n", "a", "m", "e", "\n", " ", " ", " ", " ", "d", "e", "f", " ", "_", "r", "e", "n", "d", "e", "r", "(", "s", "e", "l", "f", ")", ":", "\n", " ", " ", " ", " ", " ", " ", " ", " ", "r", "e", "t", "u", "r", "n", " ", "e", "l", "(", "\"", "d", "i", "v", "\"", ",", " ", ".", ".", ".", ")">>)),
     Assign("_div_children_4000", ListE(<<>>)),
     Assign("_div_children_5000", ListE(<<>>)),
     Assign("_div_children_6000", ListE(<<>>)),
     AppendS("_div_children_6000", ElA(<<"h", "3">>, LitS(<<"e", "x", "a", "m", "p", "l", "e", ".", "p", "s", "x">>),
        << <<<<"c", "l", "a", "s", "s">>, LitS(<<"t", "e", "x", "t", "-", "p", "u", "r", "p", "l", "e", "-", "4", "0", "0", " ", "f", "o", "n", "t", "-", "m", "o", "n", "o", " ", "t", "e", "x", "t", "-", "s", "m", " ", "m", "b", "-", "3">>)>> >>)),
     AppendS("_div_children_6000", ElA(<<"p", "r", "e">>, ElE(<<"c", "o", "d", "e">>, EscapeE(CallE("raw", <<Var("psx_example")>>))),
        << <<<<"c", "l", "a", "s", "s">>, LitS(<<"b", "g", "-", "s", "l", "a", "t", "e", "-", "9", "0", "0", " ", "r", "o", "u", "n", "d", "e", "d", "-", "l", "g", " ", "p", "-", "4", " ", "f", "o", "n", "t", "-", "m", "o", "n", "o", " ", "t", "e", "x", "t", "-", "s", "m", " ", "t", "e", "x", "t", "-", "s", "l", "a", "t", "e", "-", "3", "0", "0">>)>> >>)),
     AppendS("_div_children_5000", ElE(<<"d", "i", "v">>, Var("_div_children_6000"))),
     Assign("_div_children_7000", ListE(<<>>)),
     AppendS("_div_children_7000", ElA(<<"h", "3">>, LitS(<<"o", "u", "t", "p", "u", "t", ".", "p", "y">>),
        << <<<<"c", "l", "a", "s", "s">>, LitS(<<"t", "e", "x", "t", "-", "p", "i", "n", "k", "-", "4", "0", "0", " ", "f", "o", "n", "t", "-", "m", "o", "n", "o", " ", "t", "e", "x", "t", "-", "s", "m", " ", "m", "b", "-", "3">>)>> >>)),
     AppendS("_div_children_7000", ElA(<<"p", "r", "e">>, ElE(<<"c", "o", "d", "e">>, EscapeE(CallE("raw", <<Var("python_example")>>))),
        << <<<<"c", "l", "a", "s", "s">>, LitS(<<"b", "g", "-", "s", "l", "a", "t", "e", "-", "9", "0", "0", " ", "r", "o", "u", "n", "d", "e", "d", "-", "l", "g", " ", "p", "-", "4", " ", "f", "o", "n", "t", "-", "m", "o", "n", "o", " ", "t", "e", "x", "t", "-", "s", "m", " ", "t", "e", "x", "t", "-", "s", "l", "a", "t", "e", "-", "3", "0", "0">>)>> >>)),
     AppendS("_div_children_5000", ElE(<<"d", "i", "v">>, Var("_div_children_7000"))),
     AppendS("_div_children_4000", ElA(<<"d", "i", "v">>, Var("_div_children_5000"),
        << <<<<"c", "l", "a", "s", "s">>, LitS(<<"g", "r", "i", "d", " ", "m", "d", ":", "g", "r", "i", "d", "-", "c", "o", "l", "s", "-", "2", " ", "g", "a", "p", "-", "8">>)>> >>)),
     AppendS("_root_children_3000", ElA(<<"d", "i", "v">>, Var("_div_children_4000"),
        << <<<<"c", "l", "a", "s", "s">>, LitS(<<"b", "g", "-", "s", "l", "a", "t", "e", "-", "8", "0", "0", "/", "5", "0", " ", "b", "a", "c", "k", "d", "r", "o", "p", "-", "b", "l", "u", "r", " ", "r", "o", "u", "n", "d", "e", "d", "-", "x", "l", " ", "b", "o", "r", "d", "e", "r", " ", "b", "o", "r", "d", "e", "r", "-", "p", "u", "r", "p", "l", "e", "-", "5", "0", "0", "/", "3", "0", " ", "p", "-", "8", " ", "m", "b", "-", "2", "0">>)>> >>)),
     ReturnS(FragmentE(Var("_root_children_3000"))) >>

\* src/examples/homepage/sections/features.py (FeaturesGrid)
FeaturesGrid_render ==
  << Assign("_root_children_1000", ListE(<<>>)),
     Assign("_div_children_2000", ListE(<<>>)),
     ForS("feature", Var("FEATURES"),
          << AppendS("_div_children_2000", NewE("FeatureCard", <<<<"icon", IndexE(Var("feature"), <<"i", "c", "o", "n">>)>>, <<"title", IndexE(Var("feature"), <<"t", "i", "t", "l", "e">>)>>, <<"description", IndexE(Var("feature"), <<"d", "e", "s", "c">>)>>>>)) >>),
     AppendS("_root_children_1000", ElA(<<"d", "i", "v">>, Var("_div_children_2000"),
        << <<<<"c", "l", "a", "s", "s">>, LitS(<<"g", "r", "i", "d", " ", "m", "d", ":", "g", "r", "i", "d", "-", "c", "o", "l", "s", "-", "3", " ", "g", "a", "p", "-", "6", " ", "m", "b", "-", "2", "0">>)>> >>)),
     ReturnS(FragmentE(Var("_root_children_1000"))) >>

\* src/compiler/transformers/testdata/expected/html/attributes.py (ElementWithAttributes)
ElementWithAttributes_render ==
  << ReturnS(ElA(<<"d", "i", "v">>, EscapeE(LitS(<<"C", "o", "n", "t", "e", "n", "t", " ", "w", "i", "t", "h", " ", "a", "t", "t", "r", "i", "b", "u", "t", "e", "s">>)),
        << <<<<"c", "l", "a", "s", "s">>, EscapeE(Self("css_class"))>>,
          <<<<"i", "d">>, LitS(<<"m", "a", "i", "n", "-", "d", "i", "v">>)>> >>)) >>

\* the value of the module-level name FEATURES of features.py, imported
\* from utils/data.py: a list of dicts with the keys read at features.py:12
Globals(name) ==
  CASE name = "FEATURES" ->
    ListE(<< Lit(PyDict(<< <<<<"i", "c", "o", "n">>, PyStrV(<<"*">>)>>, <<<<"t", "i", "t", "l", "e">>, PyStrV(<<"F", "a", "s", "t">>)>>,
                           <<<<"d", "e", "s", "c">>, PyStrV(<<"a", " ", "<", " ", "b">>)>> >>)),
             Lit(PyDict(<< <<<<"i", "c", "o", "n">>, PyStrV(<<"&">>)>>, <<<<"t", "i", "t", "l", "e">>, PyStrV(<<"S", "a", "f", "e">>)>>,
                           <<<<"d", "e", "s", "c">>, PyStrV(<<>>)>> >>)) >>)
GlobalNames == {"FEATURES"}

\* the names the module of the slot components binds (conditional_slots.py:1)
ModuleNames ==
  {"BaseView", "el", "escape", "Element", "FragmentElement", "fragment", "render_child"}

\* the body of cls._render
Body(cls) ==
  CASE cls = "Card" -> Card_render
    [] cls = "Page" -> Page_render
    [] cls = "Greeting" -> Greeting_render
    [] cls = "UserList" -> UserList_render
    [] cls = "input.UserList" -> input_UserList_render
    [] cls = "ElementWithAttributes" -> ElementWithAttributes_render
    [] cls = "FeatureCard" -> FeatureCard_render
    [] cls = "ExampleCard" -> ExampleCard_render
    [] cls = "PageHeader" -> PageHeader_render
    [] cls = "CodeComparison" -> CodeComparison_render
    [] cls = "FeaturesGrid" -> FeaturesGrid_render
    [] cls = "Table" -> Table_render
    [] cls = "NestedElements" -> NestedElements_render
    [] cls = "ConditionalView" -> ConditionalView_render
    [] cls = "MultipleRoots" -> MultipleRoots_render
    [] cls = "MultiRoot" -> MultiRoot_render
    [] cls = "Layout" -> Layout_render
    [] cls = "App" -> App_render
    [] cls = "SlotCard" -> SlotCard_render
    [] cls = "TemplateApp" -> TemplateApp_render
    [] cls = "Panel" -> Panel_render
    [] cls = "Example" -> Example_render
    [] cls = "StubView" -> StubView_render
    [] cls = "ValidationErrors" -> ValidationErrors_render
    [] cls = "ContactForm" -> ContactForm_render
    [] cls = "MatchView" -> MatchView_render
    [] cls = "Button" -> Button_render
    [] cls = "basic_composition.Card" -> CompositionCard_render
    [] cls = "basic_composition.App" -> CompositionApp_render
    [] cls = "conditionals.ConditionalView" -> Conditionals_render
    [] cls = "EarlyReturnView" -> EarlyReturnView_render
    [] cls = "ErrorHandlingView" -> ErrorHandlingView_render
    [] cls = "SafeDisplay" -> SafeDisplay_render
    [] cls = "BooleanAttributes" -> BooleanAttributes_render
    [] cls = "StaticAttributes" -> StaticAttributes_render
    [] cls = "DynamicAttributes" -> DynamicAttributes_render

\* the parameters of cls.__init__, each stored in the attribute of its name;
\* <<name, TRUE, default>> has a default, <<name, FALSE, None>> is required
Params(cls) ==
  CASE cls \in {"Card"} -> << <<"title", FALSE, PyNone>> >>
    [] cls = "Greeting" -> << <<"name", FALSE, PyNone>> >>
    [] cls \in {"UserList", "input.UserList"} -> << <<"users", FALSE, PyNone>> >>
    [] cls = "FeatureCard" ->
         << <<"icon", FALSE, PyNone>>, <<"title", FALSE, PyNone>>, <<"description", FALSE, PyNone>> >>
    [] cls = "ExampleCard" -> << <<"label", FALSE, PyNone>>, <<"code", FALSE, PyNone>> >>
    [] cls = "ElementWithAttributes" -> << <<"css_class", FALSE, PyNone>> >>
    [] cls = "PageHeader" ->
         << <<"title", FALSE, PyNone>>, <<"subtitle", FALSE, PyNone>>, <<"description", FALSE, PyNone>>,
            <<"cta_text", FALSE, PyNone>>, <<"cta_url", FALSE, PyNone>> >>
    [] cls = "Table" -> << <<"rows", FALSE, PyNone>> >>
    [] cls = "ConditionalView" -> << <<"show_message", FALSE, PyNone>>, <<"message", FALSE, PyNone>> >>
    [] cls = "MultiRoot" -> << <<"title", FALSE, PyNone>>, <<"content", FALSE, PyNone>> >>
    [] cls \in {"Layout", "SlotCard"} ->
         << <<"children", TRUE, PyNone>>, <<"header", TRUE, PyNone>>, <<"footer", TRUE, PyNone>> >>
    [] cls = "Panel" ->
         << <<"title", FALSE, PyNone>>, <<"children", TRUE, PyNone>>,
            <<"actions", TRUE, PyNone>>, <<"footer", TRUE, PyNone>> >>
    [] cls = "StubView" -> << <<"result", FALSE, PyNone>> >>
    [] cls = "ValidationErrors" -> << <<"errors", FALSE, PyNone>> >>
    [] cls = "MatchView" -> << <<"status", FALSE, PyNone>>, <<"data", FALSE, PyNone>> >>
    [] cls = "Button" -> << <<"text", FALSE, PyNone>>, <<"variant", TRUE, PyStrV(<<"p", "r", "i", "m", "a", "r", "y">>)>> >>
    [] cls = "basic_composition.Card" -> << <<"title", FALSE, PyNone>> >>
    [] cls = "conditionals.ConditionalView" ->
         << <<"user_type", FALSE, PyNone>>, <<"is_admin", TRUE, PyBool(FALSE)>> >>
    [] cls = "EarlyReturnView" -> << <<"items", FALSE, PyNone>>, <<"show_empty", TRUE, PyBool(TRUE)>> >>
    [] cls = "ErrorHandlingView" -> << <<"input_value", FALSE, PyNone>> >>
    [] cls = "SafeDisplay" -> << <<"value", FALSE, PyNone>> >>
    [] cls = "BooleanAttributes" ->
         << <<"is_editable", TRUE, PyBool(FALSE)>>, <<"is_required", TRUE, PyBool(TRUE)>> >>
    [] cls = "DynamicAttributes" ->
         << <<"is_active", FALSE, PyNone>>, <<"user_id", FALSE, PyNone>>, <<"css_class", FALSE, PyNone>> >>
    [] OTHER -> << >>

(***************************************************************************)
(* Builtins of the emitted code and functions its modules define.          *)
(***************************************************************************)
\* the value of a string of decimal digits
RECURSIVE DigitsVal(_)
DigitsVal(s) ==
  IF s = <<>> THEN 0
  ELSE DigitsVal(SubSeq(s, 1, Len(s) - 1)) * 10
         + (CHOOSE d \in 0..9 : NatDigits(d) = <<s[Len(s)]>>)

IsDigits(s) == s # <<>> /\ \A i \in 1..Len(s) : \E d \in 0..9 : NatDigits(d) = <<s[i]>>

\* int(v).  Of a string: the text without the white space around it is an
\* optional sign and decimal digits, with single "_" between digits;
\* ValueError otherwise.  White space and digits beyond ASCII, and the
\* grave accent, are not modelled.
PyInt_of(h, v) ==
  CASE v.t = "int" -> Ok(h, v)
    [] v.t = "bool" -> Ok(h, PyInt(IF v.b THEN 1 ELSE 0))
    [] v.t = "str" ->
         LET Blank == {" ", "\t", "\n", "\r", "\f"}
             Graphic ==
               {
               "!", "\"", "#", "$", "%", "&", "'", "(", ")", "*", "+", ",", "-", ".",
               "/", "0", "1", "2", "3", "4", "5", "6", "7", "8", "9", ":", ";", "<",
               "=", ">", "?", "@", "A", "B", "C", "D", "E", "F", "G", "H", "I", "J",
               "K", "L", "M", "N", "O", "P", "Q", "R", "S", "T", "U", "V", "W", "X",
               "Y", "Z", "[", "\\", "]", "^", "_", "a", "b", "c", "d", "e", "f",
               "g", "h", "i", "j", "k", "l", "m", "n", "o", "p", "q", "r", "s", "t",
               "u", "v", "w", "x", "y", "z", "{", "|", "}", "~" }
             inner == {i \in 1..Len(v.s) : v.s[i] \notin Blank}
             text == IF inner = {} THEN <<>>
                     ELSE SubSeq(v.s, CHOOSE i \in inner : \A k \in inner : i <= k,
                                      CHOOSE i \in inner : \A k \in inner : i >= k)
             signed == text # <<>> /\ text[1] \in {"-", "+"}
             body == IF signed THEN Tail(text) ELSE text
             grouped == \A i \in 1..Len(body) :
                          body[i] = "_" => /\ 1 < i /\ i < Len(body)
                                           /\ IsDigits(<<body[i - 1], body[i + 1]>>)
             digits == SelectSeq(body, LAMBDA c : c # "_")
         IN IF \E i \in 1..Len(v.s) : v.s[i] \notin Blank \cup Graphic
            THEN Raise(h, "Unmodelled")
            ELSE IF ~grouped \/ ~IsDigits(digits) THEN Raise(h, "ValueError")
            ELSE Ok(h, PyInt(IF signed /\ text[1] = "-" THEN 0 - DigitsVal(digits)
                             ELSE DigitsVal(digits)))
    [] OTHER -> Raise(h, "TypeError")

\* len(v)
PyLen(h, v) ==
  CASE v.t = "str" -> Ok(h, PyInt(Len(v.s)))
    [] v.t = "dict" -> Ok(h, PyInt(Len(v.d)))
    [] v.t = "ref" /\ h[v.id].k = "list" -> Ok(h, PyInt(Len(h[v.id].items)))
    [] OTHER -> Raise(h, "TypeError")

\* a * b and a < b of two ints; an int and a string or None do not compare
PyMul(h, a, b) ==
  IF a.t = "int" /\ b.t = "int" THEN Ok(h, PyInt(a.n * b.n))
  ELSE Raise(h, "Unmodelled")

\* type(v).__name__
TypeName(v) ==
  CASE v.t = "int" -> <<"i", "n", "t">>
    [] v.t = "str" -> <<"s", "t", "r">>
    [] v.t = "none" -> <<"N", "o", "n", "e", "T", "y", "p", "e">>

PyLt(h, a, b) ==
  IF a.t = "int" /\ b.t = "int" THEN Ok(h, PyBool(a.n < b.n))
  ELSE IF {a.t, b.t} \subseteq {"int", "str", "none"} /\ a.t # b.t
       THEN [h |-> h, err |-> "TypeError",
             v |-> PyStrV(<<"'", "<", "'", " ", "n", "o", "t", " ", "s", "u", "p", "p", "o", "r", "t", "e", "d", " ", "b", "e", "t", "w", "e", "e", "n", " ", "i", "n", "s", "t", "a", "n", "c", "e", "s", " ", "o", "f", " ", "'">> \o TypeName(a)
                            \o <<"'", " ", "a", "n", "d", " ", "'">> \o TypeName(b) \o <<"'">>)]
  ELSE Raise(h, "Unmodelled")

\* src/compiler/testdata/expected/control_flow/try_except.py, risky_operation
risky_operation ==
  [params |-> <<"value">>,
   body |-> << IfS(LtE(Var("value"), Lit(PyInt(0))),
                   << RaiseS("ValueError", LitS(<<"N", "e", "g", "a", "t", "i", "v", "e", " ", "v", "a", "l", "u", "e", " ", "n", "o", "t", " ", "a", "l", "l", "o", "w", "e", "d">>)) >>,
                   << >>),
               ReturnS(MulE(Var("value"), Lit(PyInt(2)))) >>]

\* the functions the modules of the emitted code define
FunctionDef(fn) ==
  CASE fn = "risky_operation" -> risky_operation

(***************************************************************************)
(* Construction of a view: __init__ stores every parameter in the          *)
(* attribute of its name.  kw is a sequence of <<name, value>>.            *)
(***************************************************************************)
KwHas(kw, n) == \E i \in 1..Len(kw) : kw[i][1] = n
KwGet(kw, n) == kw[CHOOSE i \in 1..Len(kw) : kw[i][1] = n][2]

NewView(h, cls, kw) ==
  LET ps == Params(cls)
      names == {ps[i][1] : i \in 1..Len(ps)}
      dflt(n) == LET i == CHOOSE j \in 1..Len(ps) : ps[j][1] = n IN ps[i]
      missing == \E i \in 1..Len(ps) : ~ps[i][2] /\ ~KwHas(kw, ps[i][1])
      unknown == \E i \in 1..Len(kw) : kw[i][1] \notin names
  IN IF missing \/ unknown THEN Raise(h, "TypeError")
     ELSE LET a == Alloc(h, [k |-> "view", cls |-> cls,
                             fields |-> [n \in names |->
                                           IF KwHas(kw, n) THEN KwGet(kw, n) ELSE dflt(n)[3]],
                             has_render_cache |-> FALSE, render_cache |-> PyNone,
                             has_html_cache |-> FALSE, html_cache |-> PyNone,
                             renders |-> 0, returned |-> 0])
          IN Ok(a.h, PyRef(a.id))

(***************************************************************************)
(* The runtime's rendering and the interpreter of the emitted code call    *)
(* each other: str() of an element renders its view children, rendering a  *)
(* view executes its _render, which builds elements.  Every operator       *)
(* returns [h, v, err]: the heap after the call, the value, and the name   *)
(* of the exception raised ("" when none).                                 *)
(***************************************************************************)
RECURSIVE StrElement(_, _)
RECURSIVE StrChildren(_, _, _, _)
RECURSIVE render(_, _)
RECURSIVE _get_rendered(_, _)
RECURSIVE PyStr(_, _)
RECURSIVE Eval(_, _, _, _)
RECURSIVE EvalList(_, _, _, _, _)
RECURSIVE EvalAttrs(_, _, _, _, _)
RECURSIVE EvalFStr(_, _, _, _, _)
RECURSIVE Exec(_, _, _, _)
RECURSIVE ForLoop(_, _, _, _, _, _, _)
RECURSIVE Apply(_, _, _, _)
RECURSIVE Perform(_, _, _, _, _)
RECURSIVE Handle(_, _, _, _)
RECURSIVE ForItems(_, _, _, _, _, _)

\* the text one child contributes (runtime.py:101-112 and 148-158)
ChildText(h, child) ==
  IF child.t = "none" THEN Ok(h, PyStrV(<<>>))
  ELSE IF IsElement(h, child) THEN StrElement(h, child.id)
  ELSE IF IsView(h, child) THEN render(h, child.id)
  ELSE Ok(h, PyStrV(escape(child)))

\* the loop over self.children; the list is read where it lives, in the heap
StrChildren(h, lid, i, acc) ==
  IF i > Len(h[lid].items) THEN Ok(h, PyStrV(acc))
  ELSE LET Rest(r) == IF r.err # "" THEN r
                      ELSE StrChildren(r.h, lid, i + 1, acc \o r.v.s)
       IN Rest(ChildText(h, h[lid].items[i]))

\* __str__ that renders again whatever it has cached
StrElement_Recompute(h, id) ==
  LET e == h[id]
      attrs_str == IF e.frag THEN <<>> ELSE _render_attrs(e.attrs)
      Cached(hh, out) == Ok([hh EXCEPT ![id].html_cache = out], out)
      Close(r) ==
        IF r.err # "" THEN r
        ELSE IF e.frag THEN Cached(r.h, r.v)
        ELSE Cached(r.h, PyStrV(<<"<">> \o e.tag \o attrs_str \o <<">">>
                                \o r.v.s
                                \o <<"<", "/">> \o e.tag \o <<">">>))
  IN IF ~e.frag /\ e.self_close
       THEN Cached(h, PyStrV(<<"<">> \o e.tag \o attrs_str \o <<" ", "/", ">">>))
     ELSE Close(StrChildren(h, e.children, 1, <<>>))

\* Element.__str__ (runtime.py:85-116) and FragmentElement.__str__ (138-161)
StrElement(h, id) ==
  LET e == h[id]
      attrs_str == IF e.frag THEN <<>> ELSE _render_attrs(e.attrs)
      Cached(hh, out) == Ok([hh EXCEPT ![id].html_cache = out], out)
      Close(r) ==
        IF r.err # "" THEN r
        ELSE IF e.frag THEN Cached(r.h, r.v)
        ELSE Cached(r.h, PyStrV(<<"<">> \o e.tag \o attrs_str \o <<">">>
                                \o r.v.s
                                \o <<"<", "/">> \o e.tag \o <<">">>))
  IN IF e.html_cache.t # "none" THEN Ok(h, e.html_cache)
     ELSE IF ~e.frag /\ e.self_close
       THEN Cached(h, PyStrV(<<"<">> \o e.tag \o attrs_str \o <<" ", "/", ">">>))
     ELSE Close(StrChildren(h, e.children, 1, <<>>))

\* str(v)
PyStr(h, v) ==
  IF IsElement(h, v) THEN StrElement(h, v.id)
  ELSE IF IsView(h, v) THEN render(h, v.id)
  ELSE IF v.t \in {"str", "none", "int", "bool", "exc"} THEN Ok(h, PyStrV(PrimStr(v)))
  ELSE Raise(h, "Unmodelled")

\* one execution of cls._render on the instance id
CallRender(h, id) ==
  LET Returned(r) == IF r.err # "" THEN Raise(r.h, r.err)
                     ELSE Ok([r.h EXCEPT ![id].returned = @ + 1], r.v)
  IN Returned(Exec([h EXCEPT ![id].renders = @ + 1], id, EmptyEnv, Body(h[id].cls)))

\* BaseView._get_rendered (runtime.py:245-256)
_get_rendered(h, id) ==
  LET h1 == IF ~h[id].has_render_cache
              THEN [h EXCEPT ![id].has_render_cache = TRUE, ![id].render_cache = PyNone]
              ELSE h
      Store(r) == IF r.err # "" THEN r
                  ELSE Ok([r.h EXCEPT ![id].render_cache = r.v], r.v)
  IN IF h1[id].render_cache.t = "none" THEN Store(CallRender(h1, id))
     ELSE Ok(h1, h1[id].render_cache)

\* BaseView.render (runtime.py:258-277); BaseView.__str__ (279-280) is render
render(h, id) ==
  LET h1 == IF ~h[id].has_html_cache
              THEN [h EXCEPT ![id].has_html_cache = TRUE, ![id].html_cache = PyNone]
              ELSE h
      Store(s) == IF s.err # "" THEN s
                  ELSE Ok([s.h EXCEPT ![id].html_cache = s.v], s.v)
      Convert(result) == IF result.err # "" THEN result
                         ELSE Store(PyStr(result.h, result.v))
  IN IF h1[id].html_cache.t # "none" THEN Ok(h1, h1[id].html_cache)
     ELSE Convert(_get_rendered(h1, id))

\* render_child (runtime.py:168-184)
render_child(h, child) ==
  IF child.t = "none" THEN Ok(h, PyStrV(<<>>))
  ELSE IF IsView(h, child) THEN _get_rendered(h, child.id)
  ELSE IF IsElement(h, child) THEN Ok(h, child)
  ELSE PyStr(h, child)

(***************************************************************************)
(* Evaluation of an emitted expression, with self the instance whose       *)
(* _render runs and env its local variables.  The result of a call is      *)
(* handed to a local operator that says what the code does with it.        *)
(***************************************************************************)
\* the items of a list display, left to right
EvalList(h, self, env, items, acc) ==
  IF items = <<>> THEN Ok(h, acc)
  ELSE LET Rest(r) == IF r.err # "" THEN r
                      ELSE EvalList(r.h, self, env, Tail(items), Append(acc, r.v))
       IN Rest(Eval(h, self, env, Head(items)))

\* the values of a dict display or of keyword arguments, left to right
EvalAttrs(h, self, env, attrs, acc) ==
  IF attrs = <<>> THEN Ok(h, acc)
  ELSE LET Rest(r) ==
             IF r.err # "" THEN r
             ELSE EvalAttrs(r.h, self, env, Tail(attrs), Append(acc, <<Head(attrs)[1], r.v>>))
       IN Rest(Eval(h, self, env, Head(attrs)[2]))

\* the parts of an f-string, each formatted with str()
EvalFStr(h, self, env, parts, acc) ==
  IF parts = <<>> THEN Ok(h, PyStrV(acc))
  ELSE LET Rest(s) == IF s.err # "" THEN s
                      ELSE EvalFStr(s.h, self, env, Tail(parts), acc \o s.v.s)
           Format(r) == IF r.err # "" THEN r ELSE Rest(PyStr(r.h, r.v))
       IN Format(Eval(h, self, env, Head(parts)))

\* the operation of the expression x applied to the values of its operands:
\* arg is the result of evaluating its first operand
Apply(self, env, x, arg) ==
  IF arg.err # "" THEN arg
  ELSE
    CASE x.e = "list" ->
           LET l == NewList(arg.h, arg.v) IN Ok(l.h, PyRef(l.id))
      [] x.e = "el" ->
           LET Build(a) == IF a.err # "" THEN a
                           ELSE el(a.h, x.tag, arg.v,
                                   IF x.hasattrs THEN PyDict(a.v) ELSE PyNone, FALSE)
           IN Build(EvalAttrs(arg.h, self, env, x.attrs, <<>>))
      [] x.e = "escape" ->
           IF arg.v.t = "ref" THEN PyStr(arg.h, arg.v)
           ELSE Ok(arg.h, PyStrV(escape(arg.v)))
      [] x.e = "fragment" -> fragment(arg.h, arg.v)
      [] x.e = "render_child" -> render_child(arg.h, arg.v)
      [] x.e = "ifexp" ->
           Eval(arg.h, self, env, IF Truthy(arg.h, arg.v) THEN x.a ELSE x.b)
      [] x.e = "isnotnone" -> Ok(arg.h, PyBool(arg.v.t # "none"))
      [] x.e = "eq" ->
           LET Compare(b) == IF b.err # "" THEN b
                             ELSE Ok(b.h, PyBool(arg.v.t = b.v.t /\ arg.v = b.v))
           IN Compare(Eval(arg.h, self, env, x.b))
      [] x.e = "new" -> NewView(arg.h, x.cls, arg.v)
      [] x.e = "not" -> Ok(arg.h, PyBool(~Truthy(arg.h, arg.v)))
      [] x.e = "and" ->
           IF Truthy(arg.h, arg.v) THEN Eval(arg.h, self, env, x.b) ELSE arg
      [] x.e = "len" -> PyLen(arg.h, arg.v)
      [] x.e = "index" ->
           IF arg.v.t # "dict" THEN Raise(arg.h, "TypeError")
           ELSE IF KwHas(arg.v.d, x.key) THEN Ok(arg.h, KwGet(arg.v.d, x.key))
           ELSE Raise(arg.h, "KeyError")
      [] x.e = "int" -> PyInt_of(arg.h, arg.v)
      [] x.e = "str" -> PyStr(arg.h, arg.v)
      [] x.e = "mul" ->
           LET Multiply(b) == IF b.err # "" THEN b ELSE PyMul(b.h, arg.v, b.v)
           IN Multiply(Eval(arg.h, self, env, x.b))
      [] x.e = "lt" ->
           LET Compare(b) == IF b.err # "" THEN b ELSE PyLt(b.h, arg.v, b.v)
           IN Compare(Eval(arg.h, self, env, x.b))
      [] x.e = "invoke" ->
           \* the body runs with the parameters as its only local variables;
           \* what it raises reaches the caller with its message
           LET f == FunctionDef(x.fn)
               Result(r) == IF r.err # "" THEN [h |-> r.h, v |-> r.v, err |-> r.err]
                            ELSE Ok(r.h, r.v)
           IN IF Len(arg.v) # Len(f.params) THEN Raise(arg.h, "TypeError")
              ELSE Result(Exec(arg.h, self,
                               [n \in {f.params[i] : i \in 1..Len(f.params)} |->
                                  arg.v[CHOOSE i \in 1..Len(f.params) : f.params[i] = n]],
                               f.body))

Eval(h, self, env, x) ==
  CASE x.e = "lit" -> Ok(h, x.v)
    [] x.e = "var" ->
         IF x.name \in DOMAIN env THEN Ok(h, env[x.name])
         ELSE IF x.name \in GlobalNames THEN Eval(h, self, env, Globals(x.name))
         ELSE Raise(h, "NameError")
    [] x.e = "self" ->
         IF x.name \in DOMAIN h[self].fields THEN Ok(h, h[self].fields[x.name])
         ELSE Raise(h, "AttributeError")
    [] x.e = "list" -> Apply(self, env, x, EvalList(h, self, env, x.items, <<>>))
    [] x.e = "el" -> Apply(self, env, x, Eval(h, self, env, x.content))
    [] x.e \in {"escape", "fragment", "render_child", "isnotnone", "not", "len", "int", "str", "index"} ->
         Apply(self, env, x, Eval(h, self, env, x.arg))
    [] x.e = "ifexp" -> Apply(self, env, x, Eval(h, self, env, x.cond))
    [] x.e \in {"eq", "and", "mul", "lt"} -> Apply(self, env, x, Eval(h, self, env, x.a))
    [] x.e = "invoke" -> Apply(self, env, x, EvalList(h, self, env, x.args, <<>>))
    [] x.e = "call" ->
         \* the name is looked up before the arguments are evaluated; raw is
         \* bound by the import of topple.psx in the modules that call it
         \* (cards.py:1, layout.py:1) and runtime.py does not define it
         IF x.fn \notin ModuleNames \cup {"raw"} THEN Raise(h, "NameError")
         ELSE Raise(h, "Unmodelled")
    [] x.e = "new" -> Apply(self, env, x, EvalAttrs(h, self, env, x.kwargs, <<>>))
    [] x.e = "fstr" -> EvalFStr(h, self, env, x.parts, <<>>)

(***************************************************************************)
(* Execution of a block of emitted statements.  The result is              *)
(* [h, env, ret, v, err]: ret says that a return statement ended the       *)
(* block, v is the value returned (None when the block ran to its end).    *)
(***************************************************************************)
Done(h, env) == [h |-> h, env |-> env, ret |-> FALSE, v |-> PyNone, err |-> ""]
Failed(h, env, e) == [h |-> h, env |-> env, ret |-> FALSE, v |-> PyNone, err |-> e]

\* what iterating over src yields: the items of a list as the heap holds
\* them now, the characters of a string, the keys of a dict
Iterated(h, src) ==
  CASE IsList(h, src) -> h[src.id].items
    [] src.t = "str" -> [i \in 1..Len(src.s) |-> PyStrV(<<src.s[i]>>)]
    [] src.t = "dict" -> [i \in 1..Len(src.d) |-> PyStrV(src.d[i][1])]

\* for var in src: body, from the i-th item src yields on
ForLoop(h, self, env, var, src, i, body) ==
  IF i > Len(Iterated(h, src)) THEN Done(h, env)
  ELSE LET Rest(r) == IF r.err # "" \/ r.ret THEN r
                      ELSE ForLoop(r.h, self, r.env, var, src, i + 1, body)
       IN Rest(Exec(h, self, Bind(env, var, Iterated(h, src)[i]), body))

\* the statement st, given the result r of evaluating its expression, and
\* then the statements rest
Perform(self, env, st, rest, r) ==
  LET Continue(b) == IF b.err # "" \/ b.ret THEN b
                     ELSE Exec(b.h, self, b.env, rest)
  IN IF r.err # "" THEN [Failed(r.h, env, r.err) EXCEPT !.v = r.v]
     ELSE
       CASE st.s = "assign" -> Exec(r.h, self, Bind(env, st.var, r.v), rest)
         [] st.s = "append" ->
              Exec(ListAppend(r.h, env[st.var].id, r.v), self, env, rest)
         [] st.s = "return" ->
              [h |-> r.h, env |-> env, ret |-> TRUE, v |-> r.v, err |-> ""]
         [] st.s = "if" ->
              Continue(Exec(r.h, self, env,
                            IF Truthy(r.h, r.v) THEN st.then ELSE st.orelse))
         [] st.s = "for" ->
              \* lists, strings and dicts iterate; None, numbers, elements
              \* and views do not
              IF ~(IsList(r.h, r.v) \/ r.v.t \in {"str", "dict"})
              THEN Failed(r.h, env, "TypeError")
              ELSE Continue(ForLoop(r.h, self, env, st.var, r.v, 1, st.body))
         [] st.s = "foritems" ->
              IF r.v.t # "dict" THEN Failed(r.h, env, "AttributeError")
              ELSE Continue(ForItems(r.h, self, env, st, r.v.d, 1))
         [] st.s = "raise" ->
              [Failed(r.h, env, st.cls) EXCEPT !.v = r.v]
         [] st.s = "match" ->
              \* the first case in source order whose pattern matches
              LET hits == {i \in 1..Len(st.cases) :
                             \/ st.cases[i].wild
                             \/ st.cases[i].pat.t = r.v.t /\ st.cases[i].pat = r.v}
              IN IF hits = {} THEN Exec(r.h, self, env, rest)
                 ELSE Continue(Exec(r.h, self, env,
                                    st.cases[CHOOSE i \in hits : \A j \in hits : i <= j].body))

\* for (k, v) in <the pairs d>: body, from the i-th pair on
ForItems(h, self, env, st, d, i) ==
  IF i > Len(d) THEN Done(h, env)
  ELSE LET Rest(r) == IF r.err # "" \/ r.ret THEN r
                      ELSE ForItems(r.h, self, r.env, st, d, i + 1)
       IN Rest(Exec(h, self, Bind(Bind(env, st.k, PyStrV(d[i][1])), st.v, d[i][2]), st.body))

\* the exception classes of the emitted code; all derive from Exception
PyExceptions == {"ValueError", "TypeError", "NameError", "AttributeError"}

\* the handlers of a try statement that match an exception of class err
Matching(handlers, err) ==
  {i \in 1..Len(handlers) :
     /\ err \in PyExceptions
     /\ \/ err \in handlers[i].types
        \/ "Exception" \in handlers[i].types}

\* the handler that runs is the last one that matches
Selected_Last(handlers, err) ==
  IF Matching(handlers, err) = {} THEN 0
  ELSE CHOOSE i \in Matching(handlers, err) : \A j \in Matching(handlers, err) : i >= j

\* the handler that runs: the first one in source order that matches, 0 when
\* none does
Selected(handlers, err) ==
  IF Matching(handlers, err) = {} THEN 0
  ELSE CHOOSE i \in Matching(handlers, err) : \A j \in Matching(handlers, err) : i <= j

\* the try statement st, given the outcome r of its body, and then the
\* statements rest
Handle(self, st, rest, r) ==
  LET Continue(b) == IF b.err # "" \/ b.ret THEN b
                     ELSE Exec(b.h, self, b.env, rest)
      \* the finally block runs last; what it raises or returns replaces
      \* the outcome o, otherwise o stands
      Finally(o) ==
        LET After(f) == IF f.err # "" \/ f.ret THEN f
                        ELSE [o EXCEPT !.h = f.h, !.env = f.env]
        IN Continue(After(Exec(o.h, self, o.env, st.final)))
      \* the handler body, with the exception bound to its name and the
      \* name deleted when the handler is left
      Caught(hd) ==
        LET Leave(b) == IF hd.var = "" THEN b ELSE [b EXCEPT !.env = Unbind(@, hd.var)]
        IN Leave(Exec(r.h, self,
                      IF hd.var = "" THEN r.env
                      ELSE Bind(r.env, hd.var,
                                PyExc(r.err, IF r.v.t = "str" THEN r.v.s ELSE <<>>)),
                      hd.body))
  IN IF r.err = "" \/ Selected(st.handlers, r.err) = 0 THEN Finally(r)
     ELSE Finally(Caught(st.handlers[Selected(st.handlers, r.err)]))

\* a block runs its statements in order until one returns or raises; a
\* block of several statements is run as its first half and then its second
\* half, which keeps the evaluation shallow
Exec(h, self, env, stmts) ==
  IF stmts = <<>> THEN Done(h, env)
  ELSE IF Len(stmts) > 1 THEN
    LET half == Len(stmts) \div 2
        Then(b) == IF b.err # "" \/ b.ret THEN b
                   ELSE Exec(b.h, self, b.env, SubSeq(stmts, half + 1, Len(stmts)))
    IN Then(Exec(h, self, env, SubSeq(stmts, 1, half)))
  ELSE
    LET st == Head(stmts)
    IN IF st.s = "append" /\ st.var \notin DOMAIN env THEN Failed(h, env, "NameError")
       ELSE IF st.s = "try" THEN Handle(self, st, Tail(stmts), Exec(h, self, env, st.body))
       ELSE Perform(self, env, st, Tail(stmts),
                    Eval(h, self, env,
                         CASE st.s \in {"assign", "append", "return", "raise", "foritems"} -> st.x
                           [] st.s = "if" -> st.cond
                           [] st.s = "for" -> st.iter
                           [] st.s = "match" -> st.subject))

(***************************************************************************)
(* The program using the runtime: it constructs one view (or one element   *)
(* with a text child), wraps what it holds in further elements, holds the  *)
(* wrappers too, and calls render(),                                       *)
(* str(), _get_rendered() and render_child() in any order.                 *)
(***************************************************************************)
\* sequences over S of length at most n
SeqsUpTo(S, n) == UNION {[1..k -> S] : k \in 0..n}

Texts == {<<>>, <<"A", "l">>, <<"<", "s", "c", "r", "i", "p", "t", ">">>, <<"R", "&", "\"", "'">>}
Items == {<<"a">>, <<"<", "s", "c", "r", "i", "p", "t", ">">>}
Contents == {<<"B">>, <<"<", "b", ">">>}

\* a row of k cells "1", ..., "k"
Row(k) == ListE([i \in 1..k |-> LitS(IntStr(i))])

\* what a caller passes for a slot: nothing, an empty fragment, a fragment of one element
SlotValues ==
  { NoneE,
    FragmentE(ListE(<<>>)),
    FragmentE(ListE(<<ElE(<<"h", "1">>, LitS(<<"C", "u", "s", "t", "o", "m", " ", "H", "e", "a", "d", "e", "r">>))>>)) }

SlotArgs(names) ==
  { [i \in 1..Len(names) |-> <<names[i], f[i]>>] : f \in [1..Len(names) -> SlotValues] }

\* dicts of field errors, in insertion order
Errors ==
  { <<>>,
    << <<<<"n", "a", "m", "e">>, PyStrV(<<"R", "e", "q", "u", "i", "r", "e", "d">>)>> >>,
    << <<<<"e", "m", "a", "i", "l">>, PyStrV(<<"<", "b", "a", "d", ">">>)>>, <<<<"n", "a", "m", "e">>, PyStrV(<<"R", "e", "q", "u", "i", "r", "e", "d">>)>> >> }

\* the status values of MatchView: one per literal case and one for no case
Statuses == {<<"l", "o", "a", "d", "i", "n", "g">>, <<"s", "u", "c", "c", "e", "s", "s">>, <<"e", "r", "r", "o", "r">>, <<"<", "i", "d", "l", "e", ">">>}

\* the arguments of ErrorHandlingView: ints on both sides of 0, and values
\* that do not compare with an int
InputValues == {PyInt(0 - 1), PyInt(0), PyInt(2), PyStrV(<<"x">>), PyNone}

\* the arguments of SafeDisplay: strings int() accepts and rejects, and None
DisplayValues ==
  {PyStrV(<<"4", "2">>), PyStrV(<<"-", "7">>), PyStrV(<<"4", "x">>), PyStrV(<<>>), PyNone,
   PyStrV(<<" ", "5", "\n">>)}

StubResults ==
  {NoneE, ElE(<<"p">>, LitS(<<"x">>))} \cup {LitS(t) : t \in Texts}

\* the constructor calls of the program
\* the values of the attribute maps passed to el directly: a, b in this order
AttrValues ==
  {PyNone, PyBool(FALSE), PyBool(TRUE), PyInt(0), PyInt(1), PyStrV(<<>>),
   PyStrV(<<"T", "r", "u", "e">>), PyStrV(<<"F", "a", "l", "s", "e">>), PyStrV(<<"<", "&", "'", ">">>)}
AttrNames == <<<<"a">>, <<"b">>, <<"c">>>>
MaxAttrs == 2

\* the values escape is called with: None, strings, ints and bools
EscapeInputs ==
  {PyNone, PyStrV(<<>>), PyStrV(<<"a", "&", "<", ">", "\"", "'", "b">>), PyStrV(<<"<", "s", "c", "r", "i", "p", "t", ">">>),
   PyInt(0), PyInt(7), PyInt(0 - 12), PyBool(TRUE), PyBool(FALSE)}

\* values of PageHeader.cta_url
Urls == {<<"/", "d", "o", "c", "s">>, <<"/", "s", "?", "a", "=", "1", "&", "b", "=", "\"", "2", "\"">>, <<"<", "x", ">">>}

Constructions ==
  {NewE("Card", << <<"title", LitS(t)>> >>) : t \in Texts}
  \cup {NewE("Page", << >>), NewE("NestedElements", << >>), NewE("MultipleRoots", << >>),
        NewE("App", << >>), NewE("Example", << >>), NewE("TemplateApp", << >>)}
  \cup {NewE("Greeting", << <<"name", LitS(t)>> >>) : t \in Texts}
  \cup {NewE(c, << <<"users", ListE([i \in DOMAIN u |-> LitS(u[i])])>> >>) :
          c \in {"UserList", "input.UserList"}, u \in SeqsUpTo(Items, MaxItems)}
  \* users that are no list: a string and a dict
  \cup {NewE("UserList", << <<"users", Lit(x)>> >>) :
          x \in {PyStrV(<<"a", "<">>), PyDict(<< <<<<"k">>, PyInt(1)>> >>)}}
  \cup {NewE("Table", << <<"rows", ListE([i \in DOMAIN r |-> Row(r[i])])>> >>) :
          r \in SeqsUpTo({0, 1, MaxItems}, MaxItems)}
  \cup {NewE("ConditionalView", << <<"show_message", Lit(PyBool(b))>>, <<"message", LitS(t)>> >>) :
          b \in BOOLEAN, t \in Texts}
  \cup {NewE("MultiRoot", << <<"title", LitS(t)>>, <<"content", LitS(c)>> >>) :
          t \in Texts, c \in Contents}
  \cup {NewE("Layout", kw) : kw \in SlotArgs(<<"header", "children", "footer">>)}
  \cup {NewE("SlotCard", kw) : kw \in SlotArgs(<<"header", "children">>)}
  \cup {NewE("Panel", << <<"title", LitS(<<"M", "y", " ", "P", "a", "n", "e", "l">>)>> >> \o kw) :
          kw \in SlotArgs(<<"actions", "footer">>)}
  \cup {NewE("StubView", << <<"result", x>> >>) : x \in StubResults}
  \cup {NewE("ValidationErrors", << <<"errors", Lit(PyDict(d))>> >>) : d \in Errors}
  \cup {NewE("ContactForm", << >>), NewE("basic_composition.App", << >>),
        NewE("StaticAttributes", << >>)}
  \cup {NewE("Button", << <<"text", LitS(<<"<", "o", "k", ">">>)>> >>),
        NewE("Button", << <<"text", LitS(<<"G", "o">>)>>, <<"variant", LitS(<<"s", "u", "c", "c", "e", "s", "s">>)>> >>)}
  \cup {NewE("conditionals.ConditionalView", << <<"user_type", LitS(u)>>, <<"is_admin", Lit(b)>> >>) :
          u \in {<<"g", "u", "e", "s", "t">>, <<"u", "s", "e", "r">>, <<"<", "v", "i", "p", ">">>},
          b \in {PyBool(FALSE), PyBool(TRUE), PyInt(1), PyStrV(<<>>)}}
  \cup {NewE("EarlyReturnView",
              << <<"items", ListE([i \in DOMAIN u |-> LitS(u[i])])>>, <<"show_empty", Lit(PyBool(b))>> >>) :
          u \in SeqsUpTo(Items, MaxItems), b \in BOOLEAN}
  \cup {NewE("ErrorHandlingView", << <<"input_value", Lit(x)>> >>) : x \in InputValues}
  \cup {NewE("SafeDisplay", << <<"value", Lit(x)>> >>) : x \in DisplayValues}
  \cup {NewE("BooleanAttributes", << <<"is_editable", Lit(PyBool(a))>>, <<"is_required", Lit(b)>> >>) :
          a \in BOOLEAN, b \in AttrValues}
  \cup {NewE("BooleanAttributes", << >>)}
  \cup {NewE("DynamicAttributes",
              << <<"is_active", Lit(PyBool(a))>>, <<"user_id", Lit(PyInt(n))>>, <<"css_class", LitS(c)>> >>) :
          a \in BOOLEAN, n \in {0, 7}, c \in {<<"b", "i", "g">>, <<"a", "\"", "b">>}}
  \cup {NewE("MatchView", << <<"status", LitS(st)>>, <<"data", Lit(PyDict(d))>> >>) :
          st \in Statuses, d \in {<<>>, << <<<<"k">>, PyInt(1)>> >>}}
  \cup {NewE("FeatureCard", << <<"icon", LitS(i)>>, <<"title", LitS(t)>>, <<"description", LitS(t)>> >>) :
          i \in Contents, t \in Texts}
  \cup {NewE("ExampleCard", << <<"label", LitS(t)>>, <<"code", LitS(c)>> >>) : t \in Texts, c \in Contents}
  \cup {NewE("PageHeader", << <<"title", LitS(t)>>, <<"subtitle", LitS(<<>>)>>, <<"description", LitS(t)>>,
                              <<"cta_text", LitS(c)>>, <<"cta_url", LitS(u)>> >>) :
          t \in Texts, c \in Contents, u \in Urls}
  \cup {NewE("CodeComparison", << >>), NewE("FeaturesGrid", << >>)}
  \cup {NewE("ElementWithAttributes", << <<"css_class", LitS(u)>> >>) : u \in Urls}
  \cup {ElE(<<"p">>, LitS(t)) : t \in Texts}
  \cup {FragmentE(ListE(<<LitS(t)>>)) : t \in Texts}
  \cup {ElA(<<"i">>, LitS(<<>>), [i \in DOMAIN m |-> <<AttrNames[i], Lit(m[i])>>]) :
          m \in SeqsUpTo(AttrValues, MaxAttrs) \ {<<>>}}

\* arg is the argument of a call of a module-level function
NoCall == [op |-> "none", id |-> 0, arg |-> PyNone, v |-> PyNone, err |-> ""]

Init ==
  /\ heap = <<>>
  /\ refs = <<>>
  /\ wraps = 0
  /\ last = NoCall
  /\ units = Idle /\ plan = Idle /\ biscuit = Idle

\* the references the program holds
Held == {refs[i] : i \in 1..Len(refs)}
HeldViews == {v \in Held : IsView(heap, v)}
HeldElements == {v \in Held : IsElement(heap, v)}

\* the first object: x = Cls(...), x = el("p", text) or x = fragment([text])
Construct(x) ==
  /\ refs = <<>>
  /\ LET Hold(r) == /\ r.err = ""
                    /\ heap' = r.h
                    /\ refs' = <<r.v>>
                    /\ last' = [op |-> "new", id |-> r.v.id, arg |-> PyNone, v |-> r.v, err |-> ""]
     IN Hold(Eval(heap, 0, EmptyEnv, x))
  /\ UNCHANGED <<wraps, units, plan, biscuit>>

\* the effect of a call on the program's state; an exception leaves the
\* heap as the call left it.  A call that runs code the sources do not
\* hold has no modelled outcome and is not taken.
Called(op, id, r) ==
  /\ r.err # "Unmodelled"
  /\ heap' = r.h
  /\ last' = [op |-> op, id |-> id, arg |-> PyRef(id), v |-> r.v, err |-> r.err]

\* every view at or under the object id has run _render fewer than
\* MaxRenders times, so that a call may run it again
RECURSIVE MayRenderUnder(_, _)
MayRenderUnder(h, id) ==
  CASE h[id].k = "view" ->
         /\ h[id].renders < MaxRenders
         /\ h[id].render_cache.t = "ref" => MayRenderUnder(h, h[id].render_cache.id)
    [] h[id].k = "elem" -> MayRenderUnder(h, h[id].children)
    [] h[id].k = "list" ->
         \A i \in 1..Len(h[id].items) :
           h[id].items[i].t = "ref" => MayRenderUnder(h, h[id].items[i].id)

MayRender(v) == MayRenderUnder(heap, v.id)

\* v.render()
CallViewRender(v) ==
  /\ v \in HeldViews /\ MayRender(v)
  /\ Called("render", v.id, render(heap, v.id))
  /\ UNCHANGED <<refs, wraps, units, plan, biscuit>>

\* str(v) of a view
CallViewStr(v) ==
  /\ v \in HeldViews /\ MayRender(v)
  /\ Called("str", v.id, PyStr(heap, v))
  /\ UNCHANGED <<refs, wraps, units, plan, biscuit>>

\* v._get_rendered()
CallGetRendered(v) ==
  /\ v \in HeldViews /\ MayRender(v)
  /\ Called("_get_rendered", v.id, _get_rendered(heap, v.id))
  /\ UNCHANGED <<refs, wraps, units, plan, biscuit>>

\* render_child(v)
CallRenderChild(v) ==
  /\ v \in HeldViews /\ MayRender(v)
  /\ Called("render_child", v.id, render_child(heap, v))
  /\ UNCHANGED <<refs, wraps, units, plan, biscuit>>

\* str(e) of an element
CallElementStr(v) ==
  /\ v \in HeldElements /\ MayRender(v)
  /\ Called("str", v.id, PyStr(heap, v))
  /\ UNCHANGED <<refs, wraps, units, plan, biscuit>>

\* w = el("div", v)
WrapEl(v) ==
  /\ v \in Held /\ wraps < MaxWraps
  /\ LET Hold(r) == Called("el", v.id, r) /\ refs' = Append(refs, r.v)
     IN Hold(el(heap, <<"d", "i", "v">>, v, PyNone, FALSE))
  /\ wraps' = wraps + 1
  /\ UNCHANGED <<units, plan, biscuit>>

\* w = fragment([v])
WrapFragment(v) ==
  /\ v \in Held /\ wraps < MaxWraps
  /\ LET l == NewList(heap, <<v>>)
         Hold(r) == Called("fragment", v.id, r) /\ refs' = Append(refs, r.v)
     IN Hold(fragment(l.h, PyRef(l.id)))
  /\ wraps' = wraps + 1
  /\ UNCHANGED <<units, plan, biscuit>>

(***************************************************************************)
(* Text nodes with interpolation, as the recorded outputs hold them: the   *)
(* text of the expression passed to el as the content.  A module is read   *)
(* as text when the program imports it, by the tokenizer of the installed  *)
(* interpreter (3.11): a string literal ends at the first quote like its   *)
(* opening one, inside a replacement field or not.  Under the grammar of   *)
(* 3.12 a quote inside a replacement field opens a nested string; every    *)
(* module below is accepted or rejected alike under both.                  *)
(***************************************************************************)
EmittedModules == {"complex_expressions", "comprehensions", "conditionals", "decorators"}

TextNodes(m) ==
    \* complex_expressions.py, lines 25, 26, 27, 34
  CASE m = "complex_expressions" ->
         { <<"f", "\"", "I", "t", "e", "m", "s", ":", " ", "{", "e", "s", "c", "a", "p", "e", "(", "l", "e", "n", "(", "s", "e", "l", "f", ".", "i", "t", "e", "m", "s", ")", ")", "}", " ", "(", "{", "e", "s", "c", "a", "p", "e", "(", "g", "e", "t", "_", "s", "t", "a", "t", "u", "s", "(", "l", "e", "n", "(", "s", "e", "l", "f", ".", "i", "t", "e", "m", "s", ")", ")", ")", "}", ")", "\"">>,
           <<"f", "\"", "T", "o", "t", "a", "l", ":", " ", "{", "e", "s", "c", "a", "p", "e", "(", "f", "o", "r", "m", "a", "t", "_", "c", "u", "r", "r", "e", "n", "c", "y", "(", "t", "o", "t", "a", "l", "_", "v", "a", "l", "u", "e", ")", ")", "}", "\"">>,
           <<"f", "\"", "A", "v", "e", "r", "a", "g", "e", ":", " ", "{", "e", "s", "c", "a", "p", "e", "(", "f", "o", "r", "m", "a", "t", "_", "c", "u", "r", "r", "e", "n", "c", "y", "(", "t", "o", "t", "a", "l", "_", "v", "a", "l", "u", "e", " ", "/", " ", "l", "e", "n", "(", "s", "e", "l", "f", ".", "i", "t", "e", "m", "s", ")", ")", " ", "i", "f", " ", "s", "e", "l", "f", ".", "i", "t", "e", "m", "s", " ", "e", "l", "s", "e", " ", "\"", "N", "/", "A", "\"", ")", "}", "\"">>,
           <<"f", "\"", "f", "\"", ".", ".", ".", " ", "a", "n", "d", " ", "{", "e", "s", "c", "a", "p", "e", "(", "l", "e", "n", "(", "s", "e", "l", "f", ".", "i", "t", "e", "m", "s", ")", " ", "-", " ", "3", ")", "}", " ", "m", "o", "r", "e", " ", "i", "t", "e", "m", "s", "\"", "\"">> }
    \* comprehensions.py, lines 23, 26
    [] m = "comprehensions" ->
         { <<"f", "\"", "{", "e", "s", "c", "a", "p", "e", "(", "i", "t", "e", "m", "_", "i", "d", ")", "}", ":", "{", "e", "s", "c", "a", "p", "e", "(", "n", "a", "m", "e", ")", "}", "\"">>,
           <<"f", "\"", "f", "\"", "L", "e", "n", "g", "t", "h", "s", ":", "{", "e", "s", "c", "a", "p", "e", "(", "s", "o", "r", "t", "e", "d", "(", "u", "n", "i", "q", "u", "e", "_", "l", "e", "n", "g", "t", "h", "s", ")", ")", "}", "\"", "\"">> }
    \* conditionals.py, lines 17
    [] m = "conditionals" ->
         { <<"f", "\"", "W", "e", "l", "c", "o", "m", "e", ",", " ", "{", "e", "s", "c", "a", "p", "e", "(", "s", "e", "l", "f", ".", "u", "s", "e", "r", "_", "t", "y", "p", "e", ")", "}", "!", "\"">> }
    \* decorators.py, lines 46, 47, 48, 50
    [] m = "decorators" ->
         { <<"f", "\"", "P", "r", "o", "c", "e", "s", "s", "o", "r", ":", " ", "{", "e", "s", "c", "a", "p", "e", "(", "p", "r", "o", "c", "e", "s", "s", "o", "r", ".", "n", "a", "m", "e", ")", "}", "\"">>,
           <<"f", "\"", "I", "n", "p", "u", "t", " ", "v", "a", "l", "u", "e", "s", ":", " ", "{", "e", "s", "c", "a", "p", "e", "(", "s", "e", "l", "f", ".", "v", "a", "l", "u", "e", "s", ")", "}", "\"">>,
           <<"f", "\"", "R", "e", "s", "u", "l", "t", "s", ":", " ", "{", "e", "s", "c", "a", "p", "e", "(", "r", "e", "s", "u", "l", "t", "s", ")", "}", "\"">>,
           <<"f", "\"", "f", "\"", "R", "e", "s", "u", "l", "t", " ", "{", "e", "s", "c", "a", "p", "e", "(", "i", ")", "}", ":", " ", "{", "e", "s", "c", "a", "p", "e", "(", "r", "e", "s", "u", "l", "t", ")", "}", "\"", "\"">> }

\* the depth in replacement fields before each character of t and after
\* the last, from the i-th on at depth d; a doubled brace outside every
\* field is a literal brace
RECURSIVE BraceDepths(_, _, _)
BraceDepths(t, i, d) ==
  IF i > Len(t) THEN <<d>>
  ELSE IF d = 0 /\ i < Len(t) /\ t[i] \in {"{", "}"} /\ t[i + 1] = t[i]
       THEN <<0, 0>> \o BraceDepths(t, i + 2, 0)
  ELSE <<d>> \o BraceDepths(t, i + 1, CASE t[i] = "{" -> d + 1
                                         [] t[i] = "}" -> d - 1
                                         [] OTHER -> d)

\* the number of replacement fields open before the i-th character of t
Depth(t, i) == BraceDepths(t, 1, 0)[i]

\* the quote that opens the literal t: its second character, or three of
\* them
OpeningQuote(t) ==
  IF Len(t) >= 4 /\ t[3] = t[2] /\ t[4] = t[2] THEN <<t[2], t[2], t[2]>> ELSE <<t[2]>>

\* where the string literal opened by the first characters of t closes: the
\* end of the first quote like the opening one that no backslash escapes;
\* 0 when there is none, or when a line ends before it in a literal opened
\* by one quote
ClosingQuote(t) ==
  LET q == OpeningQuote(t)
      n == Len(q)
      \* an odd number of backslashes stands right before the i-th character
      Backslashed(i) ==
        LET run == {k \in 1..(i - 1) : \A j \in k..(i - 1) : t[j] = "\\"}
        IN Cardinality(run) % 2 = 1
      qs == {i \in (2 + n)..(Len(t) - n + 1) : SubSeq(t, i, i + n - 1) = q /\ ~Backslashed(i)}
      first == CHOOSE i \in qs : \A j \in qs : i <= j
  IN IF qs = {} THEN 0
     ELSE IF n = 1 /\ \E k \in 3..first : t[k] = "\n" THEN 0
     ELSE first + n - 1

\* the replacement fields of t, without their braces
Fields(t) ==
  {SubSeq(t, i + 1, (CHOOSE j \in (i + 1)..Len(t) :
                       /\ t[j] = "}" /\ Depth(t, j) = 1
                       /\ \A k \in (i + 1)..(j - 1) : ~(t[k] = "}" /\ Depth(t, k) = 1)) - 1) :
     i \in {k \in 1..Len(t) : t[k] = "{" /\ Depth(t, k) = 0 /\ Depth(t, k + 1) = 1}}

\* x is one call of escape: the parenthesis after the name closes at the
\* end of x and not before
EscapeCall(x) ==
  LET Open(i) == Cardinality({j \in 7..i : x[j] = "("}) - Cardinality({j \in 7..i : x[j] = ")"})
  IN /\ Len(x) > Len(<<"e", "s", "c", "a", "p", "e", "(", ")">>)
     /\ SubSeq(x, 1, 7) = <<"e", "s", "c", "a", "p", "e", "(">>
     /\ x[Len(x)] = ")"
     /\ \A i \in 7..(Len(x) - 1) : Open(i) > 0

\* t is exactly one interpolated-string expression: the literal its prefix
\* and quote open closes with the last character of t, and every
\* replacement field in it is closed and holds an expression
OneInterpolatedString(t) ==
  /\ Len(t) >= 3 /\ t[1] \in {"f", "F"} /\ t[2] \in {"\"", "'"}
  /\ ClosingQuote(t) = Len(t)
  /\ LET body == SubSeq(t, 2 + Len(OpeningQuote(t)), Len(t) - Len(OpeningQuote(t)))
     IN /\ \A i \in 1..(Len(body) + 1) : Depth(body, i) >= 0
        /\ Depth(body, Len(body) + 1) = 0
        /\ \A x \in Fields(body) : \E k \in 1..Len(x) : x[k] # " "

\* import of an emitted module, before the first object is constructed
Import(m) ==
  /\ refs = <<>>
  /\ last' = [op |-> "import", id |-> 0, arg |-> PyStrV(<<m>>), v |-> PyNone,
              err |-> IF \A t \in TextNodes(m) : OneInterpolatedString(t)
                        THEN "" ELSE "SyntaxError"]
  /\ UNCHANGED <<heap, refs, wraps, units, plan, biscuit>>

\* escape(v) of an object the program holds or of a value; the escape of
\* a value changes nothing of the heap, whatever the state it is called in,
\* and is called before the first object is constructed
CallEscape(v) ==
  /\ IF v.t = "ref" THEN v \in Held /\ MayRender(v) ELSE refs = <<>>
  /\ LET Hold(r) == /\ r.err # "Unmodelled"
                    /\ heap' = r.h
                    /\ last' = [op |-> "escape", id |-> IF v.t = "ref" THEN v.id ELSE 0,
                                arg |-> v, v |-> r.v, err |-> r.err]
     IN Hold(Eval(heap, 0, EmptyEnv, EscapeE(Lit(v))))
  /\ UNCHANGED <<refs, wraps, units, plan, biscuit>>

Next ==
  \/ \E x \in Constructions : Construct(x)
  \/ \E v \in Held : CallViewRender(v)
  \/ \E v \in Held : CallViewStr(v)
  \/ \E v \in Held : CallGetRendered(v)
  \/ \E v \in Held : CallRenderChild(v)
  \/ \E v \in Held : CallElementStr(v)
  \/ \E v \in Held : WrapEl(v)
  \/ \E v \in Held : WrapFragment(v)
  \/ \E v \in Held \cup EscapeInputs : CallEscape(v)
  \/ \E m \in EmittedModules : Import(m)

Spec == Init /\ [][Next]_vars

(***************************************************************************)
(* What the claims speak about.                                            *)
(***************************************************************************)
ObjIds == 1..Len(heap)
ViewIds == {id \in ObjIds : heap[id].k = "view"}
ElemIds == {id \in ObjIds : heap[id].k = "elem"}
ViewsOf(cls) == {id \in ViewIds : heap[id].cls = cls}

\* the object has rendered to HTML, and the HTML
HasHtml(id) == heap[id].k \in {"view", "elem"} /\ heap[id].html_cache.t = "str"
Html(id) == heap[id].html_cache.s

\* sub occurs in s
Contains(s, sub) == \E i \in 0..(Len(s) - Len(sub)) : SubSeq(s, i + 1, i + Len(sub)) = sub

\* the objects rendered as part of the object id: itself, its children,
\* what its views returned
RECURSIVE Under(_, _)
Under(h, id) ==
  {id} \cup
  CASE h[id].k = "elem" -> Under(h, h[id].children)
    [] h[id].k = "list" ->
         UNION {Under(h, h[id].items[i].id) :
                  i \in {j \in 1..Len(h[id].items) : h[id].items[j].t = "ref"}}
    [] h[id].k = "view" ->
         IF h[id].render_cache.t = "ref" THEN Under(h, h[id].render_cache.id) ELSE {}

\* the items a for loop over a field of a view gets
FieldItems(id, f) == Iterated(heap, heap[id].fields[f])

ScriptTag == <<"<", "s", "c", "r", "i", "p", "t", ">">>

\* C1: every interpolated text s placed by el(tag, escape(s)), or inside one
\* f-string, appears in the HTML of every element, fragment and view around
\* it HTML-escaped exactly once, whatever the nesting depth.
C1_EscapedOnce ==
  \A o \in ObjIds : HasHtml(o) =>
    \A v \in Under(heap, o) \cap ViewIds :
      /\ heap[v].cls = "Card" =>
           Contains(Html(o), <<"<", "h", "2", ">">> \o HtmlEscape(heap[v].fields.title.s) \o <<"<", "/", "h", "2", ">">>)
      /\ heap[v].cls = "Greeting" =>
           Contains(Html(o), <<"<", "h", "1", ">", "H", "e", "l", "l", "o", ",", " ">> \o HtmlEscape(heap[v].fields.name.s) \o <<"!", "<", "/", "h", "1", ">">>)
      /\ heap[v].cls = "UserList" =>
           \A i \in 1..Len(FieldItems(v, "users")) :
             Contains(Html(o), <<"<", "l", "i", ">">> \o HtmlEscape(FieldItems(v, "users")[i].s) \o <<"<", "/", "l", "i", ">">>)

\* no view under the object returned a plain string from _render: all its
\* text entered as a text child of an element or fragment
TextChildrenOnly(o) ==
  \A v \in Under(heap, o) \cap ViewIds : heap[v].render_cache.t # "str"

\* C2: a string containing <script> that reaches the output as a text child
\* of an element or fragment (directly or through escape()), at any depth,
\* never leaves the unescaped substring <script> in the rendered HTML.
C2_NoUnescapedScript ==
  \A o \in ObjIds :
    (HasHtml(o) /\ TextChildrenOnly(o)) => ~Contains(Html(o), ScriptTag)

\* an element with a direct text child containing <script> has rendered
C2_Witness ==
  \E e \in ElemIds :
    /\ HasHtml(e)
    /\ \E i \in 1..Len(heap[heap[e].children].items) :
         LET c == heap[heap[e].children].items[i]
         IN c.t = "str" /\ Contains(c.s, ScriptTag)

\* C3: over any sequence of render(), __str__(), _get_rendered() and
\* render_child() calls on one view, _render runs at most once, whatever
\* value it returns.
C3_RenderAtMostOnce ==
  \A v \in ViewIds : heap[v].returned <= 1

(***************************************************************************)
(* The shape of an emitted render body.                                    *)
(***************************************************************************)
\* st is  <var> = []
IsAccDecl(st) == st.s = "assign" /\ st.x.e = "list" /\ st.x.items = <<>>

\* the body ends with  return fragment(<var>)
ReturnsFragmentOfVar(b) ==
  /\ b # <<>>
  /\ b[Len(b)].s = "return"
  /\ b[Len(b)].x.e = "fragment"
  /\ b[Len(b)].x.arg.e = "var"

\* the body ends with the return of an expression that is no fragment
ReturnsDirect(b) ==
  /\ b # <<>>
  /\ b[Len(b)].s = "return"
  /\ b[Len(b)].x.e # "fragment"

\* the variable the body returns wrapped in fragment(...)
RootAcc(b) == b[Len(b)].x.arg.name

\* some statement of the block, at any depth, appends to acc
RECURSIVE AppendsTo(_, _)
AppendsTo(stmts, acc) ==
  \E i \in 1..Len(stmts) :
    \/ stmts[i].s = "append" /\ stmts[i].var = acc
    \/ stmts[i].s = "if" /\ (AppendsTo(stmts[i].then, acc) \/ AppendsTo(stmts[i].orelse, acc))
    \/ stmts[i].s \in {"for", "foritems"} /\ AppendsTo(stmts[i].body, acc)
    \/ stmts[i].s = "try" /\
         \/ AppendsTo(stmts[i].body, acc) \/ AppendsTo(stmts[i].final, acc)
         \/ \E k \in 1..Len(stmts[i].handlers) : AppendsTo(stmts[i].handlers[k].body, acc)
    \/ stmts[i].s = "match" /\
         \E k \in 1..Len(stmts[i].cases) : AppendsTo(stmts[i].cases[k].body, acc)

\* the root nodes the body yields unconditionally, and the root-level
\* control-flow statements that yield root nodes
UnconditionalRoots(b) ==
  IF ReturnsFragmentOfVar(b)
    THEN {i \in 1..Len(b) : b[i].s = "append" /\ b[i].var = RootAcc(b)}
    ELSE {Len(b)}
ControlRoots(b) ==
  IF ReturnsFragmentOfVar(b)
    THEN {i \in 1..Len(b) : b[i].s \in {"if", "for", "foritems", "try", "match"}
                               /\ AppendsTo(<<b[i]>>, RootAcc(b))}
    ELSE {}

OneUnconditionalRoot(b) == Cardinality(UnconditionalRoots(b)) = 1 /\ ControlRoots(b) = {}

\* the sole root content is an if/else whose branches each yield one element
SoleIfElseRoot(b) ==
  \/ /\ Len(b) = 1 /\ b[1].s = "return" /\ b[1].x.e = "ifexp"
     /\ b[1].x.a.e = "el" /\ b[1].x.b.e = "el"
  \/ /\ ReturnsFragmentOfVar(b)
     /\ UnconditionalRoots(b) = {}
     /\ Cardinality(ControlRoots(b)) = 1
     /\ \A i \in ControlRoots(b) :
          /\ b[i].s = "if"
          /\ Len(b[i].then) = 1 /\ b[i].then[1].s = "append" /\ b[i].then[1].x.e = "el"
          /\ Len(b[i].orelse) = 1 /\ b[i].orelse[1].s = "append" /\ b[i].orelse[1].x.e = "el"

\* the views whose _render the compiler emitted
CompiledViews == {v \in ViewIds : heap[v].cls # "StubView"}

\* the value _render returned is a fragment
ReturnedFragment(v) ==
  /\ heap[v].render_cache.t = "ref"
  /\ heap[heap[v].render_cache.id].k = "elem"
  /\ heap[heap[v].render_cache.id].frag

\* the children of an element of the heap
ChildrenOf(e) == heap[heap[e].children].items

\* C4: a render body that yields exactly one unconditional root node is
\* emitted without root accumulator and without fragment wrapper, as a
\* direct return; any other body returns exactly one top-level fragment
\* wrapping the root accumulator.
C4_RootCount ==
  \A v \in CompiledViews :
    LET b == Body(heap[v].cls)
    IN IF OneUnconditionalRoot(b)
         THEN ReturnsDirect(b) /\ (heap[v].returned > 0 => ~ReturnedFragment(v))
         ELSE /\ ReturnsFragmentOfVar(b)
              /\ \E i \in 1..Len(b) : IsAccDecl(b[i]) /\ b[i].var = RootAcc(b)
              /\ heap[v].returned > 0 => ReturnedFragment(v)

\* C5 as claimed: a body whose sole root content is an if/else of one
\* element per branch is emitted as a direct conditional expression, with
\* no accumulator and no fragment wrapper.
C5_DirectConditional ==
  \A v \in CompiledViews :
    LET b == Body(heap[v].cls)
    IN SoleIfElseRoot(b) =>
         /\ ReturnsDirect(b)
         /\ \A i \in 1..Len(b) : ~IsAccDecl(b[i])
         /\ heap[v].returned > 0 => ~ReturnedFragment(v)

\* C5: a body whose sole root content is an if/else of one element per
\* branch is emitted as one root accumulator, an if/else statement whose
\* branches each append their element to it, and return fragment(acc);
\* executed, it returns a fragment of exactly the element of the branch
\* taken, and renders to that element's HTML.
C5_AccumulatedConditional ==
  \A v \in CompiledViews :
    LET b == Body(heap[v].cls)
    IN SoleIfElseRoot(b) =>
         /\ Len(b) = 3 /\ IsAccDecl(b[1]) /\ b[2].s = "if" /\ ReturnsFragmentOfVar(b)
         /\ b[1].var = RootAcc(b)
         /\ b[2].then[1].var = RootAcc(b) /\ b[2].orelse[1].var = RootAcc(b)
         /\ heap[v].returned > 0 =>
              /\ ReturnedFragment(v)
              /\ LET items == ChildrenOf(heap[v].render_cache.id)
                     f == heap[v].fields
                 IN /\ Len(items) = 1
                    /\ IsElement(heap, items[1])
                    /\ heap[items[1].id].tag = <<"d", "i", "v">>
                    /\ ChildrenOf(items[1].id) =
                         << PyStrV(IF Truthy(heap, f.show_message)
                                     THEN escape(f.message) ELSE <<"N", "o", " ", "m", "e", "s", "s", "a", "g", "e">>) >>
                    /\ HasHtml(v) => (HasHtml(items[1].id) /\ Html(v) = Html(items[1].id))

\* a ConditionalView has rendered, its condition false
C5_Witness ==
  \E v \in ViewsOf("ConditionalView") :
    HasHtml(v) /\ ~Truthy(heap, heap[v].fields.show_message)

\* the body is one accumulator declaration, then only appends of elements
\* to it, then  return fragment(<that accumulator>)
AccumulatesRoots(b) ==
  /\ Len(b) >= 2
  /\ IsAccDecl(b[1])
  /\ ReturnsFragmentOfVar(b) /\ RootAcc(b) = b[1].var
  /\ \A i \in 2..(Len(b) - 1) : b[i].s = "append" /\ b[i].var = b[1].var /\ b[i].x.e = "el"

\* the HTML of the children of an element, joined in order
ChildrenHtml(e) == Join([i \in 1..Len(ChildrenOf(e)) |-> Html(ChildrenOf(e)[i].id)])

\* C6: a render body with two or more root elements is emitted as exactly
\* one root accumulator, every root element appended to it in source order,
\* returned as fragment(accumulator); it renders to the roots' HTML joined
\* in source order, with no wrapping tag.
C6_MultipleRoots ==
  \A v \in CompiledViews :
    LET b == Body(heap[v].cls)
    IN (Cardinality(UnconditionalRoots(b)) >= 2 /\ ControlRoots(b) = {}) =>
         /\ AccumulatesRoots(b)
         /\ Cardinality({i \in 1..Len(b) : IsAccDecl(b[i])}) = 1
         /\ heap[v].returned > 0 =>
              /\ ReturnedFragment(v)
              /\ LET f == heap[v].render_cache.id
                 IN /\ Len(ChildrenOf(f)) = Len(b) - 2
                    /\ \A i \in 1..Len(ChildrenOf(f)) :
                         /\ IsElement(heap, ChildrenOf(f)[i])
                         /\ heap[ChildrenOf(f)[i].id].tag = b[i + 1].x.tag
                    /\ HasHtml(v) =>
                         /\ \A i \in 1..Len(ChildrenOf(f)) : HasHtml(ChildrenOf(f)[i].id)
                         /\ Html(v) = ChildrenHtml(f)
                         /\ heap[v].cls = "MultipleRoots" =>
                              Html(v) = <<"<", "h", "1", ">", "F", "i", "r", "s", "t", "<", "/", "h", "1", ">", "<", "p", ">", "S", "e", "c", "o", "n", "d", "<", "/", "p", ">", "<", "d", "i", "v", ">", "T", "h", "i", "r", "d", "<", "/", "d", "i", "v", ">">>

\* a view of several roots has rendered
C6_Witness ==
  \E v \in ViewsOf("MultipleRoots") \cup ViewsOf("MultiRoot") : HasHtml(v)

\* C7: a desugared for loop over N items whose body appends one element per
\* iteration gives the enclosing element exactly N children, the i-th built
\* from the i-th item, for every N >= 0; they render in that order.
C7_ForLoopChildren ==
  /\ \A v \in ViewsOf("UserList") : heap[v].returned > 0 =>
       LET root == ChildrenOf(heap[v].render_cache.id)
           ul == root[1].id
           users == FieldItems(v, "users")
       IN /\ Len(root) = 1 /\ heap[ul].tag = <<"u", "l">>
          /\ Len(ChildrenOf(ul)) = Len(users)
          /\ \A i \in 1..Len(users) :
               LET li == ChildrenOf(ul)[i]
               IN /\ IsElement(heap, li) /\ heap[li.id].tag = <<"l", "i">>
                  /\ ChildrenOf(li.id) = <<PyStrV(escape(users[i]))>>
          /\ HasHtml(ul) =>
               Html(ul) = <<"<", "u", "l", ">">> \o ChildrenHtml(ul) \o <<"<", "/", "u", "l", ">">>
  /\ \A v \in ViewsOf("Table") : heap[v].returned > 0 =>
       LET root == ChildrenOf(heap[v].render_cache.id)
           table == root[1].id
           rows == FieldItems(v, "rows")
       IN /\ Len(root) = 1 /\ heap[table].tag = <<"t", "a", "b", "l", "e">>
          /\ Len(ChildrenOf(table)) = Len(rows)
          /\ \A i \in 1..Len(rows) :
               LET tr == ChildrenOf(table)[i]
                   cells == heap[rows[i].id].items
               IN /\ IsElement(heap, tr) /\ heap[tr.id].tag = <<"t", "r">>
                  /\ Len(ChildrenOf(tr.id)) = Len(cells)
                  /\ \A j \in 1..Len(cells) :
                       LET td == ChildrenOf(tr.id)[j]
                       IN /\ IsElement(heap, td) /\ heap[td.id].tag = <<"t", "d">>
                          /\ ChildrenOf(td.id) = <<PyStrV(escape(cells[j]))>>

\* a UserList over MaxItems different items has rendered
C7_Witness ==
  \E v \in ViewsOf("UserList") :
    /\ HasHtml(v)
    /\ Len(FieldItems(v, "users")) = MaxItems
    /\ FieldItems(v, "users")[1] # FieldItems(v, "users")[2]

(***************************************************************************)
(* Slots.  The components with slot parameters, the element of each slot   *)
(* position in what _render returns, and the author's fallback there.      *)
(***************************************************************************)
SlotComponents == {"Layout", "SlotCard", "Panel"}

\* the slots of a component in the order of their positions
SlotsOf(cls) ==
  CASE cls = "Layout" -> <<"header", "children", "footer">>
    [] cls = "SlotCard" -> <<"header", "children", "footer">>
    [] cls = "Panel" -> <<"actions", "children", "footer">>

\* the HTML of the slot's position when the caller supplied nothing
FallbackHtml(cls, slot) ==
  CASE cls = "Layout" /\ slot = "header" -> <<"<", "h", "e", "a", "d", "e", "r", ">", "<", "h", "1", ">", "D", "e", "f", "a", "u", "l", "t", " ", "H", "e", "a", "d", "e", "r", "<", "/", "h", "1", ">", "<", "/", "h", "e", "a", "d", "e", "r", ">">>
    [] cls = "Layout" /\ slot = "children" -> <<"<", "m", "a", "i", "n", ">", "<", "p", ">", "D", "e", "f", "a", "u", "l", "t", " ", "c", "o", "n", "t", "e", "n", "t", "<", "/", "p", ">", "<", "/", "m", "a", "i", "n", ">">>
    [] cls = "Layout" /\ slot = "footer" -> <<"<", "f", "o", "o", "t", "e", "r", ">", "<", "p", ">", "D", "e", "f", "a", "u", "l", "t", " ", "f", "o", "o", "t", "e", "r", "<", "/", "p", ">", "<", "/", "f", "o", "o", "t", "e", "r", ">">>
    [] cls = "SlotCard" /\ slot = "header" ->
         <<"<", "d", "i", "v", " ", "c", "l", "a", "s", "s", "=", "\"", "c", "a", "r", "d", "-", "h", "e", "a", "d", "e", "r", "\"", ">", "<", "h", "4", ">", "D", "e", "f", "a", "u", "l", "t", " ", "H", "e", "a", "d", "e", "r", "<", "/", "h", "4", ">", "<", "/", "d", "i", "v", ">">>
    [] cls = "SlotCard" /\ slot = "children" -> <<"<", "d", "i", "v", " ", "c", "l", "a", "s", "s", "=", "\"", "c", "a", "r", "d", "-", "b", "o", "d", "y", "\"", ">", "<", "/", "d", "i", "v", ">">>
    [] cls = "SlotCard" /\ slot = "footer" -> <<"<", "d", "i", "v", " ", "c", "l", "a", "s", "s", "=", "\"", "c", "a", "r", "d", "-", "f", "o", "o", "t", "e", "r", "\"", ">", "<", "/", "d", "i", "v", ">">>
    \* the actions position has no else branch: nothing stands in its place
    [] cls = "Panel" /\ slot = "actions" -> <<>>
    [] cls = "Panel" /\ slot = "children" -> <<"<", "d", "i", "v", " ", "c", "l", "a", "s", "s", "=", "\"", "p", "a", "n", "e", "l", "-", "b", "o", "d", "y", "\"", ">", "<", "/", "d", "i", "v", ">">>
    [] cls = "Panel" /\ slot = "footer" ->
         <<"<", "d", "i", "v", " ", "c", "l", "a", "s", "s", "=", "\"", "p", "a", "n", "e", "l", "-", "f", "o", "o", "t", "e", "r", " ", "t", "e", "x", "t", "-", "m", "u", "t", "e", "d", "\"", ">", "<", "p", ">", "N", "o", " ", "f", "o", "o", "t", "e", "r", " ", "c", "o", "n", "t", "e", "n", "t", " ", "p", "r", "o", "v", "i", "d", "e", "d", ".", "<", "/", "p", ">", "<", "/", "d", "i", "v", ">">>

\* the last call was render() or str() of the view v
Rendering(v) == last.id = v /\ last.op \in {"render", "str"}

\* C8: a component with a slot parameter that defaults to None, rendered by
\* a caller that supplies nothing for the slot, produces the author's
\* fallback markup in the slot's position.
C8_SlotFallback ==
  \A v \in ViewIds :
    (heap[v].cls \in SlotComponents /\ Rendering(v)) =>
      \A i \in 1..Len(SlotsOf(heap[v].cls)) :
        LET slot == SlotsOf(heap[v].cls)[i]
        IN heap[v].fields[slot].t = "none" =>
             /\ last.err = ""
             /\ Contains(last.v.s, FallbackHtml(heap[v].cls, slot))

\* the element of the i-th slot position of a rendered Layout or SlotCard
SlotPosition(v, i) == ChildrenOf(heap[v].render_cache.id)[i].id

\* the opening tag of a slot position
SlotOpen(cls, slot) ==
  CASE cls = "Layout" /\ slot = "header" -> <<"<", "h", "e", "a", "d", "e", "r", ">">>
    [] cls = "Layout" /\ slot = "children" -> <<"<", "m", "a", "i", "n", ">">>
    [] cls = "Layout" /\ slot = "footer" -> <<"<", "f", "o", "o", "t", "e", "r", ">">>
    [] cls = "SlotCard" /\ slot = "header" -> <<"<", "d", "i", "v", " ", "c", "l", "a", "s", "s", "=", "\"", "c", "a", "r", "d", "-", "h", "e", "a", "d", "e", "r", "\"", ">">>
    [] cls = "SlotCard" /\ slot = "children" -> <<"<", "d", "i", "v", " ", "c", "l", "a", "s", "s", "=", "\"", "c", "a", "r", "d", "-", "b", "o", "d", "y", "\"", ">">>
    [] cls = "SlotCard" /\ slot = "footer" -> <<"<", "d", "i", "v", " ", "c", "l", "a", "s", "s", "=", "\"", "c", "a", "r", "d", "-", "f", "o", "o", "t", "e", "r", "\"", ">">>

\* C9: every rendered slot position holds the supplied slot value whenever
\* the parameter is not None (an empty fragment included), and the fallback
\* only when it is None: one child, never both.
C9_SuppliedOrFallback ==
  \A v \in ViewsOf("Layout") \cup ViewsOf("SlotCard") :
    heap[v].returned > 0 =>
      \A i \in 1..Len(SlotsOf(heap[v].cls)) :
        LET slot == SlotsOf(heap[v].cls)[i]
            given == heap[v].fields[slot]
            pos == SlotPosition(v, i)
        IN /\ Len(ChildrenOf(pos)) = 1
           /\ given.t # "none" => ChildrenOf(pos)[1] = given
           /\ HasHtml(pos) =>
                /\ given.t = "none" => Html(pos) = FallbackHtml(heap[v].cls, slot)
                /\ given.t # "none" =>
                     /\ HasHtml(given.id)
                     /\ Html(pos) = SlotOpen(heap[v].cls, slot) \o Html(given.id)
                                      \o <<"<", "/">> \o heap[pos].tag \o <<">">>

\* a Layout given an empty fragment as header, and nothing as footer, has rendered
C9_Witness ==
  \E v \in ViewsOf("Layout") :
    /\ HasHtml(v)
    /\ heap[v].fields.footer.t = "none"
    /\ heap[v].fields.header.t = "ref"
    /\ ChildrenOf(heap[v].fields.header.id) = <<>>

\* the names an expression calls that are neither the runtime's nor a view
RECURSIVE CalledNames(_)
RECURSIVE CalledNamesIn(_)
CalledNamesIn(xs) == UNION {CalledNames(xs[i]) : i \in 1..Len(xs)}
CalledNames(x) ==
  CASE x.e = "call" -> {x.fn} \cup CalledNamesIn(x.args)
    [] x.e \in {"lit", "var", "self"} -> {}
    [] x.e \in {"escape", "fragment", "render_child", "isnotnone", "not", "len", "int", "str", "index"} ->
         CalledNames(x.arg)
    [] x.e = "invoke" -> CalledNamesIn(x.args)
    [] x.e = "list" -> CalledNamesIn(x.items)
    [] x.e = "fstr" -> CalledNamesIn(x.parts)
    [] x.e = "el" ->
         CalledNames(x.content) \cup UNION {CalledNames(x.attrs[i][2]) : i \in 1..Len(x.attrs)}
    [] x.e = "new" -> UNION {CalledNames(x.kwargs[i][2]) : i \in 1..Len(x.kwargs)}
    [] x.e = "ifexp" -> CalledNames(x.cond) \cup CalledNames(x.a) \cup CalledNames(x.b)
    [] x.e \in {"eq", "and", "mul", "lt"} -> CalledNames(x.a) \cup CalledNames(x.b)

RECURSIVE BlockCalls(_)
BlockCalls(stmts) ==
  UNION { CASE stmts[i].s \in {"assign", "append", "return", "raise"} -> CalledNames(stmts[i].x)
            [] stmts[i].s = "foritems" ->
                 CalledNames(stmts[i].x) \cup BlockCalls(stmts[i].body)
            [] stmts[i].s = "try" ->
                 BlockCalls(stmts[i].body) \cup BlockCalls(stmts[i].final)
                   \cup UNION {BlockCalls(stmts[i].handlers[k].body) :
                                 k \in 1..Len(stmts[i].handlers)}
            [] stmts[i].s = "match" ->
                 CalledNames(stmts[i].subject)
                   \cup UNION {BlockCalls(stmts[i].cases[k].body) : k \in 1..Len(stmts[i].cases)}
            [] stmts[i].s = "if" ->
                 CalledNames(stmts[i].cond) \cup BlockCalls(stmts[i].then)
                   \cup BlockCalls(stmts[i].orelse)
            [] stmts[i].s = "for" ->
                 CalledNames(stmts[i].iter) \cup BlockCalls(stmts[i].body)
          : i \in 1..Len(stmts) }

\* C10: every has_slot(name) of a component body is compiled into a
\* presence check on the slot parameter: the emitted code calls no name its
\* module does not define, and rendering the component raises no NameError.
C10_NoHasSlotCall ==
  /\ \A v \in CompiledViews : BlockCalls(Body(heap[v].cls)) \subseteq ModuleNames
  /\ last.err # "NameError"


(***************************************************************************)
(* Component invocations with nested markup.                               *)
(***************************************************************************)
\* the slot parameters of a component: keyword parameters that default to None
SlotParams(cls) ==
  {Params(cls)[i][1] : i \in {j \in 1..Len(Params(cls)) : Params(cls)[j][2]}}

\* the body returns the invocation of a component with slots
ReturnsInvocation(b) ==
  /\ b # <<>>
  /\ b[Len(b)].s = "return"
  /\ b[Len(b)].x.e = "new"
  /\ b[Len(b)].x.cls \in SlotComponents

\* the positions of the slot arguments among the keyword arguments of a call
SlotArgPositions(call) ==
  {i \in 1..Len(call.kwargs) : call.kwargs[i][1] \in SlotParams(call.cls)}

\* the nodes the body appends to acc, in source order
AppendedTo(b, acc) ==
  SelectSeq(b, LAMBDA st : st.s = "append" /\ st.var = acc)

\* the ids of the children of the fragment held by the field f of the view c
PartitionIds(c, f) ==
  {ChildrenOf(heap[c].fields[f].id)[k].id : k \in 1..Len(ChildrenOf(heap[c].fields[f].id))}

\* C11: every slot argument of a component invocation is fragment(acc) of an
\* accumulator of its own, never a bare element, also for a partition of one
\* node; every node of the nested markup is appended to exactly one
\* partition, and the fragment the component receives holds the nodes of its
\* partition in source order.
C11_SlotPartitions ==
  \A v \in CompiledViews :
    LET b == Body(heap[v].cls)
    IN ReturnsInvocation(b) =>
         LET call == b[Len(b)].x
             slots == SlotArgPositions(call)
             arg(i) == call.kwargs[i][2]
         IN /\ slots # {}
            /\ \A i \in slots :
                 /\ arg(i).e = "fragment"
                 /\ arg(i).arg.e = "var"
                 /\ \E j \in 1..Len(b) : IsAccDecl(b[j]) /\ b[j].var = arg(i).arg.name
                 /\ AppendedTo(b, arg(i).arg.name) # <<>>
            /\ \A i, j \in slots : i # j => arg(i).arg.name # arg(j).arg.name
            /\ \A k \in 1..Len(b) :
                 b[k].s = "append" =>
                   Cardinality({i \in slots : arg(i).arg.name = b[k].var}) = 1
            /\ heap[v].returned > 0 =>
                 LET c == heap[v].render_cache.id
                 IN /\ \A i \in slots :
                         LET f == heap[c].fields[call.kwargs[i][1]]
                             nodes == AppendedTo(b, arg(i).arg.name)
                         IN /\ IsElement(heap, f)
                            /\ heap[f.id].frag
                            /\ Len(ChildrenOf(f.id)) = Len(nodes)
                            /\ \A k \in 1..Len(nodes) :
                                 /\ IsElement(heap, ChildrenOf(f.id)[k])
                                 /\ ~heap[ChildrenOf(f.id)[k].id].frag
                                 /\ heap[ChildrenOf(f.id)[k].id].tag = nodes[k].x.tag
                    /\ \A i, j \in slots :
                         i # j => PartitionIds(c, call.kwargs[i][1])
                                    \cap PartitionIds(c, call.kwargs[j][1]) = {}

\* an App has passed a partition of one node, a TemplateApp one of two nodes
C11_Witness ==
  \E v \in ViewsOf("App") \cup ViewsOf("TemplateApp") :
    /\ heap[v].returned > 0
    /\ heap[v].cls = "App" =>
         Len(ChildrenOf(heap[heap[v].render_cache.id].fields["header"].id)) = 1
    /\ heap[v].cls = "TemplateApp" =>
         Len(ChildrenOf(heap[heap[v].render_cache.id].fields["children"].id)) = 2


(***************************************************************************)
(* Accumulator ids.  A compilation unit is one emitted module; its render  *)
(* bodies name their accumulators _<anchor>_children_<id>.                 *)
(***************************************************************************)
\* the emitted modules whose classes are all modelled, each with its
\* classes in source order
Units ==
  { <<"Card">>, <<"Page">>, <<"UserList">>, <<"input.UserList">>, <<"Table">>,
    <<"FeatureCard", "ExampleCard">>, <<"PageHeader", "CodeComparison">>, <<"FeaturesGrid">>, <<"ElementWithAttributes">>, <<"NestedElements">>,
    <<"ConditionalView">>, <<"MultipleRoots">>, <<"MultiRoot">>,
    <<"Layout", "App">>, <<"SlotCard", "TemplateApp">>, <<"Panel", "Example">>,
    <<"ValidationErrors", "ContactForm">>, <<"MatchView">>,
    <<"Button", "basic_composition.Card", "basic_composition.App">>,
    <<"conditionals.ConditionalView">>, <<"EarlyReturnView">>,
    <<"ErrorHandlingView">>, <<"SafeDisplay">>,
    <<"BooleanAttributes">>, <<"StaticAttributes">>, <<"DynamicAttributes">> }

UnitClasses == UNION {{u[i] : i \in 1..Len(u)} : u \in Units}
UnitOf(cls) == CHOOSE u \in Units : \E i \in 1..Len(u) : u[i] = cls

\* the anchors of the accumulator names, and the largest id looked for in a name
Anchors == {"root", "div", "form", "slot", "table", "tr", "ul", "view"}
MaxAccId == 9000

AccName(anchor, id) == "_" \o anchor \o "_children_" \o ToString(id)

\* the accumulators a block allocates ( name = [] ), in source order
RECURSIVE Allocated(_)
Allocated(stmts) ==
  LET In(st) ==
        CASE st.s = "assign" ->
               IF st.x.e = "list" /\ st.x.items = <<>> THEN <<st.var>> ELSE <<>>
          [] st.s = "if" -> Allocated(st.then) \o Allocated(st.orelse)
          [] st.s \in {"for", "foritems"} -> Allocated(st.body)
          [] st.s = "try" ->
               Allocated(st.body)
                 \o Join([k \in 1..Len(st.handlers) |-> Allocated(st.handlers[k].body)])
                 \o Allocated(st.final)
          [] st.s = "match" -> Join([k \in 1..Len(st.cases) |-> Allocated(st.cases[k].body)])
          [] OTHER -> <<>>
  IN Join([i \in 1..Len(stmts) |-> In(stmts[i])])

\* the names of the accumulators of the modelled bodies, and the id in each
AllocatedNames ==
  UNION {{Allocated(Body(cls))[i] : i \in 1..Len(Allocated(Body(cls)))} : cls \in UnitClasses}

AccId ==
  [name \in AllocatedNames |->
     CHOOSE id \in 1..MaxAccId : \E anchor \in Anchors : name = AccName(anchor, id)]

\* the ids a render body allocates, in allocation order
BodyIds ==
  [cls \in UnitClasses |-> [i \in 1..Len(Allocated(Body(cls))) |-> AccId[Allocated(Body(cls))[i]]]]

\* the ids a unit allocates, body after body
UnitIds == [u \in Units |-> Join([i \in 1..Len(u) |-> BodyIds[u[i]]])]

\* the variables an expression reads
RECURSIVE Reads(_)
Reads(x) ==
  CASE x.e = "var" -> {x.name}
    [] x.e \in {"lit", "self"} -> {}
    [] x.e = "list" -> UNION {Reads(x.items[i]) : i \in 1..Len(x.items)}
    [] x.e = "el" -> Reads(x.content) \cup UNION {Reads(x.attrs[i][2]) : i \in 1..Len(x.attrs)}
    [] x.e \in {"escape", "fragment", "render_child", "isnotnone", "not", "len", "int", "str", "index"} ->
         Reads(x.arg)
    [] x.e = "ifexp" -> Reads(x.cond) \cup Reads(x.a) \cup Reads(x.b)
    [] x.e \in {"eq", "and", "mul", "lt"} -> Reads(x.a) \cup Reads(x.b)
    [] x.e \in {"call", "invoke"} -> UNION {Reads(x.args[i]) : i \in 1..Len(x.args)}
    [] x.e = "new" -> UNION {Reads(x.kwargs[i][2]) : i \in 1..Len(x.kwargs)}
    [] x.e = "fstr" -> UNION {Reads(x.parts[i]) : i \in 1..Len(x.parts)}

\* the pairs <<outer, inner>> of a block: a node built from the accumulator
\* inner is appended to the accumulator outer, so the scope of inner is
\* nested in the scope of outer
RECURSIVE Nestings(_)
Nestings(stmts) ==
  LET In(st) ==
        CASE st.s = "append" -> {<<st.var, n>> : n \in Reads(st.x) \cap AllocatedNames}
          [] st.s = "if" -> Nestings(st.then) \cup Nestings(st.orelse)
          [] st.s \in {"for", "foritems"} -> Nestings(st.body)
          [] st.s = "try" ->
               Nestings(st.body) \cup Nestings(st.final)
                 \cup UNION {Nestings(st.handlers[k].body) : k \in 1..Len(st.handlers)}
          [] st.s = "match" -> UNION {Nestings(st.cases[k].body) : k \in 1..Len(st.cases)}
          [] OTHER -> {}
  IN UNION {In(stmts[i]) : i \in 1..Len(stmts)}

BodyNestings == [cls \in UnitClasses |-> Nestings(Body(cls))]

\* no id occurs twice in the unit
UniqueIds ==
  [u \in Units |-> \A i, j \in 1..Len(UnitIds[u]) : i # j => UnitIds[u][i] # UnitIds[u][j]]

\* every nested scope of the body has a larger id than the scope around it
NestedLarger ==
  [cls \in UnitClasses |-> \A p \in BodyNestings[cls] : AccId[p[2]] > AccId[p[1]]]

\* C13: within one compilation unit no two accumulators have the same id,
\* and the accumulator of a scope nested in another scope has a strictly
\* larger id than the accumulator of the enclosing scope; stated of the unit
\* of every view of the heap
C13_UniqueNestedIds ==
  \A v \in CompiledViews :
    heap[v].cls \in UnitClasses =>
      /\ UniqueIds[UnitOf(heap[v].cls)]
      /\ \A i \in 1..Len(UnitOf(heap[v].cls)) : NestedLarger[UnitOf(heap[v].cls)[i]]

\* a ContactForm has rendered: its unit has a second body with accumulators,
\* three sibling scopes at the same depth and scopes nested four deep
C13_Witness ==
  \E v \in ViewsOf("ContactForm") :
    /\ heap[v].returned > 0
    /\ Len(UnitIds[UnitOf("ContactForm")]) > Len(BodyIds["ContactForm"])
    /\ {<<"_form_children_6000", "_div_children_7000">>,
        <<"_form_children_6000", "_div_children_8000">>,
        <<"_form_children_6000", "_div_children_9000">>,
        <<"_div_children_5000", "_form_children_6000">>,
        <<"_root_children_4000", "_div_children_5000">>} \subseteq BodyNestings["ContactForm"]


\* the id of the first accumulator of a module's first body, and the step
\* between two ids allocated one after the other (for_in_element.py:8-9)
Seed == 1000
Stride == 1000

\* C14: the accumulator ids of every render body start from the same seed
\* and advance by one fixed stride per allocated accumulator, in allocation
\* order, whatever the bodies compiled before it in the unit allocated;
\* stated of the body of every view of the heap
C14_SeededPerBody ==
  \A v \in CompiledViews :
    heap[v].cls \in UnitClasses =>
      \A k \in 1..Len(BodyIds[heap[v].cls]) :
        BodyIds[heap[v].cls][k] = Seed + (k - 1) * Stride


\* the expressions a block returns, at any depth
RECURSIVE Returns(_)
Returns(stmts) ==
  LET In(st) ==
        CASE st.s = "return" -> {st.x}
          [] st.s = "if" -> Returns(st.then) \cup Returns(st.orelse)
          [] st.s \in {"for", "foritems"} -> Returns(st.body)
          [] st.s = "try" ->
               Returns(st.body) \cup Returns(st.final)
                 \cup UNION {Returns(st.handlers[k].body) : k \in 1..Len(st.handlers)}
          [] st.s = "match" -> UNION {Returns(st.cases[k].body) : k \in 1..Len(st.cases)}
          [] OTHER -> {}
  IN UNION {In(stmts[i]) : i \in 1..Len(stmts)}

\* the class attribute of an element of the heap, None when it has none
ClassOf(e) ==
  IF KwHas(heap[e].attrs, <<"c", "l", "a", "s", "s">>) THEN KwGet(heap[e].attrs, <<"c", "l", "a", "s", "s">>) ELSE PyNone

\* tag, class and number of children of each element of a list of nodes
Shapes(nodes) ==
  [i \in 1..Len(nodes) |->
     IF IsElement(heap, nodes[i])
     THEN <<heap[nodes[i].id].tag, ClassOf(nodes[i].id), Len(ChildrenOf(nodes[i].id))>>
     ELSE <<nodes[i]>>]

\* C15: on every path of a generated body that takes an explicit early
\* return, the value returned is a fragment of exactly the elements appended
\* to the root accumulator before the return, in append order: every return
\* of EarlyReturnView._render wraps the root accumulator, and the fragment a
\* view returned holds the appends of its path and nothing of the statements
\* after the return taken.
C15_EarlyReturn ==
  /\ \A x \in Returns(EarlyReturnView_render) :
       /\ x.e = "fragment"
       /\ x.arg.e = "var"
       /\ x.arg.name = RootAcc(EarlyReturnView_render)
  /\ \A v \in ViewsOf("EarlyReturnView") : heap[v].returned > 0 =>
       LET items == FieldItems(v, "items")
           show_empty == heap[v].fields["show_empty"].b
       IN /\ ReturnedFragment(v)
          /\ Shapes(ChildrenOf(heap[v].render_cache.id)) =
               IF items = <<>> /\ ~show_empty
               THEN << <<<<"d", "i", "v">>, PyStrV(<<"e", "m", "p", "t", "y", "-", "m", "e", "s", "s", "a", "g", "e">>), 1>> >>
               ELSE IF items = <<>>
               THEN << <<<<"d", "i", "v">>, PyStrV(<<"e", "m", "p", "t", "y", "-", "s", "t", "a", "t", "e">>), 2>> >>
               ELSE << <<<<"d", "i", "v">>, PyStrV(<<"i", "t", "e", "m", "s", "-", "l", "i", "s", "t">>), 1 + Len(items)>> >>

\* a view took the first early return: it returned a fragment of the one
\* element appended before it
C15_Witness ==
  \E v \in ViewsOf("EarlyReturnView") :
    /\ heap[v].returned > 0
    /\ FieldItems(v, "items") = <<>> /\ ~heap[v].fields["show_empty"].b
    /\ Len(ChildrenOf(heap[v].render_cache.id)) = 1


\* the text an element of the heap has as its only child
TextOf(e) == ChildrenOf(e)[1]

\* tag, class and first text of the heading of each node
Blocks(nodes) ==
  [i \in 1..Len(nodes) |->
     <<heap[nodes[i].id].tag, ClassOf(nodes[i].id),
       IF IsElement(heap, ChildrenOf(nodes[i].id)[1])
       THEN TextOf(ChildrenOf(nodes[i].id)[1].id)
       ELSE TextOf(nodes[i].id)>>]

\* C16: on every path through a desugared try/except/finally the enclosing
\* accumulator receives, in order, the appends the try body made before the
\* raise (possibly none), then the appends of only the first handler in
\* source order that matches, then the append of the finally block, exactly
\* once and last.  Stated of the div of ErrorHandlingView (two handlers, of
\* which the second matches whatever the first matches, and a finally) and
\* of SafeDisplay (one handler, no finally), for each view that returned.
C16_TryExceptFinally ==
  /\ \A v \in ViewsOf("ErrorHandlingView") : heap[v].returned > 0 =>
       LET x == heap[v].fields["input_value"]
           root == ChildrenOf(heap[v].render_cache.id)
           footer == <<<<"p">>, PyStrV(<<"f", "o", "o", "t", "e", "r">>), PyStrV(<<"O", "p", "e", "r", "a", "t", "i", "o", "n", " ", "c", "o", "m", "p", "l", "e", "t", "e", "d">>)>>
       IN /\ Len(root) = 1 /\ IsElement(heap, root[1])
          /\ Blocks(ChildrenOf(root[1].id)) =
               IF x.t = "int" /\ x.n >= 0
               THEN << <<<<"d", "i", "v">>, PyStrV(<<"s", "u", "c", "c", "e", "s", "s">>), PyStrV(<<"S", "u", "c", "c", "e", "s", "s", "!">>)>>, footer >>
               ELSE IF x.t = "int"
               THEN << <<<<"d", "i", "v">>, PyStrV(<<"e", "r", "r", "o", "r">>), PyStrV(<<"E", "r", "r", "o", "r">>)>>, footer >>
               ELSE << <<<<"d", "i", "v">>, PyStrV(<<"e", "r", "r", "o", "r">>), PyStrV(<<"U", "n", "e", "x", "p", "e", "c", "t", "e", "d", " ", "E", "r", "r", "o", "r">>)>>, footer >>
  /\ \A v \in ViewsOf("SafeDisplay") : heap[v].returned > 0 =>
       LET x == heap[v].fields["value"]
           root == ChildrenOf(heap[v].render_cache.id)
       IN /\ Len(root) = 1 /\ IsElement(heap, root[1])
          /\ x.t = "str"
          /\ Blocks(ChildrenOf(root[1].id)) =
               IF PyInt_of(heap, x).err = ""
               THEN << <<<<"p">>, PyNone,
                         PyStrV(<<"V", "a", "l", "u", "e", ":", " ">> \o IntStr(PyInt_of(heap, x).v.n))>> >>
               ELSE << <<<<"p">>, PyNone, PyStrV(<<"I", "n", "v", "a", "l", "i", "d", " ", "v", "a", "l", "u", "e">>)>> >>
  \* an exception no handler matches leaves the body: nothing is returned
  /\ \A v \in ViewsOf("SafeDisplay") :
       heap[v].fields["value"].t = "none" => heap[v].returned = 0

\* a ValueError was raised in the try body, where both handlers match: the
\* view returned with the block of the first handler and the footer
C16_Witness ==
  \E v \in ViewsOf("ErrorHandlingView") :
    /\ heap[v].returned > 0
    /\ heap[v].fields["input_value"] = PyInt(0 - 1)
    /\ Cardinality(Matching(ErrorHandlingView_render[3].handlers, "ValueError")) = 2
    /\ Len(ChildrenOf(ChildrenOf(heap[v].render_cache.id)[1].id)) = 2


\* the <<name, value>> pairs of the attribute maps in an expression
RECURSIVE AttrsIn(_)
AttrsIn(x) ==
  CASE x.e \in {"lit", "var", "self"} -> {}
    [] x.e = "list" -> UNION {AttrsIn(x.items[i]) : i \in 1..Len(x.items)}
    [] x.e = "el" ->
         {x.attrs[i] : i \in 1..Len(x.attrs)} \cup AttrsIn(x.content)
           \cup UNION {AttrsIn(x.attrs[i][2]) : i \in 1..Len(x.attrs)}
    [] x.e \in {"escape", "fragment", "render_child", "isnotnone", "not", "len", "int", "str", "index"} ->
         AttrsIn(x.arg)
    [] x.e = "ifexp" -> AttrsIn(x.cond) \cup AttrsIn(x.a) \cup AttrsIn(x.b)
    [] x.e \in {"eq", "and", "mul", "lt"} -> AttrsIn(x.a) \cup AttrsIn(x.b)
    [] x.e \in {"call", "invoke"} -> UNION {AttrsIn(x.args[i]) : i \in 1..Len(x.args)}
    [] x.e = "new" -> UNION {AttrsIn(x.kwargs[i][2]) : i \in 1..Len(x.kwargs)}
    [] x.e = "fstr" -> UNION {AttrsIn(x.parts[i]) : i \in 1..Len(x.parts)}

\* the <<name, value>> pairs of the attribute maps of a block
RECURSIVE BlockAttrs(_)
BlockAttrs(stmts) ==
  LET In(st) ==
        CASE st.s \in {"assign", "append", "return", "raise"} -> AttrsIn(st.x)
          [] st.s = "if" -> AttrsIn(st.cond) \cup BlockAttrs(st.then) \cup BlockAttrs(st.orelse)
          [] st.s = "for" -> AttrsIn(st.iter) \cup BlockAttrs(st.body)
          [] st.s = "foritems" -> AttrsIn(st.x) \cup BlockAttrs(st.body)
          [] st.s = "try" ->
               BlockAttrs(st.body) \cup BlockAttrs(st.final)
                 \cup UNION {BlockAttrs(st.handlers[k].body) : k \in 1..Len(st.handlers)}
          [] st.s = "match" ->
               AttrsIn(st.subject) \cup UNION {BlockAttrs(st.cases[k].body) : k \in 1..Len(st.cases)}
  IN UNION {In(stmts[i]) : i \in 1..Len(stmts)}

\* a string, number or True/False literal, emitted as it is
VerbatimLiteral(x) == x.e = "lit" /\ x.v.t \in {"str", "int", "bool"}

\* C17: a literal string or number and a True/False literal constant are
\* emitted verbatim, with no escape(...) around them, and every other value
\* is emitted inside exactly one escape(...) call; stated of the attribute
\* maps of the body of every view of the heap
C17_AttributeEmission ==
  \A v \in CompiledViews :
    \A a \in BlockAttrs(Body(heap[v].cls)) :
      \/ VerbatimLiteral(a[2])
      \/ /\ a[2].e = "escape"
         /\ ~VerbatimLiteral(a[2].arg)
         /\ a[2].arg.e # "escape"




\* the classes whose emitted bodies were recorded for the source of cls:
\* for_in_element.py is recorded twice, under testdata/input and under
\* testdata/expected
SameSource(cls) ==
  IF cls \in {"UserList", "input.UserList"} THEN {"UserList", "input.UserList"} ELSE {cls}

\* C12: compiling the same source twice, in any two runs, yields
\* byte-identical output: the same accumulator names and ids, the same
\* statement order, the same wrapping decisions; stated of the bodies
\* recorded for the source of every view of the heap
C12_SameOutput ==
  \A v \in CompiledViews :
    \A c \in SameSource(heap[v].cls) : Body(c) = Body(heap[v].cls)


\* what one attribute contributes to the opening tag
Contribution(name, v) ==
  IF v = PyNone \/ v = PyBool(FALSE) THEN <<>>
  ELSE IF v = PyBool(TRUE) THEN <<" ">> \o name
  ELSE <<" ">> \o name \o <<"=", "\"">> \o escape(v) \o <<"\"">>

\* the opening tag of an element with the attribute map attrs
OpeningTag(tag, attrs) ==
  <<"<">> \o tag \o Join([i \in DOMAIN attrs |-> Contribution(attrs[i][1], attrs[i][2])])

\* s starts with p, and c follows
StartsWith(s, p, c) ==
  /\ Len(s) >= Len(p) + Len(c)
  /\ SubSeq(s, 1, Len(p)) = p
  /\ SubSeq(s, Len(p) + 1, Len(p) + Len(c)) = c

\* C18: for every attribute map, _render_attrs emits the attributes in map
\* order: None and False contribute nothing, True the bare name, every other
\* value v (0, 1, "", "True", "False" included) name="escape(v)"; stated of
\* the opening tag of every element that has rendered
C18_RenderAttrs ==
  \A e \in ElemIds :
    (HasHtml(e) /\ ~heap[e].frag) =>
      StartsWith(Html(e), OpeningTag(heap[e].tag, heap[e].attrs),
                 IF heap[e].self_close THEN <<" ", "/", ">">> ELSE <<">">>)

\* an element whose map holds 0 and then the string "False" has rendered
C18_Witness ==
  /\ \E e \in ElemIds :
       /\ HasHtml(e)
       /\ heap[e].attrs = << <<<<"a">>, PyInt(0)>>, <<<<"b">>, PyStrV(<<"F", "a", "l", "s", "e">>)>> >>



\* the entity that replaces a character in HTML text
Entity ==
  [c \in {"&", "<", ">", "\"", "'"} |->
     CASE c = "&" -> <<"&", "a", "m", "p", ";">> [] c = "<" -> <<"&", "l", "t", ";">> [] c = ">" -> <<"&", "g", "t", ";">>
       [] c = "\"" -> <<"&", "q", "u", "o", "t", ";">> [] c = "'" -> <<"&", "#", "x", "2", "7", ";">>]

\* the text s with each of & < > " ' replaced by its entity
Entities(s) == Join([i \in DOMAIN s |-> IF s[i] \in DOMAIN Entity THEN Entity[s[i]] ELSE <<s[i]>>])

\* escape(v) was the last call
Escaped == last.op = "escape"

\* what escape returns for its argument, where it returns
EscapeResult ==
  /\ last.v.t = "str"
  /\ last.arg = PyNone => last.v.s = <<>>
  /\ last.arg.t = "str" => last.v.s = Entities(last.arg.s)
  /\ last.arg.t \in {"int", "bool"} => last.v.s = PrimStr(last.arg)
  /\ last.arg.t = "ref" => (HasHtml(last.arg.id) /\ last.v.s = Html(last.arg.id))

\* C19: escape(v) returns the empty string when v is None, the
\* entity-escaped text when v is a string and str(v) unchanged for every
\* other type; it always returns a string and never raises.
C19_EscapeNeverRaises ==
  Escaped => (last.err = "" /\ EscapeResult)

\* C19 (amended): escape(v) returns the empty string when v is None, the
\* entity-escaped text when v is a string and str(v) for every other type; it
\* raises only when v is an object whose __str__ raises, and then what
\* str(v) raises.
C19_Escape ==
  Escaped =>
    IF last.err = "" THEN EscapeResult
    ELSE /\ last.arg.t = "ref"
         /\ LET Same(r) == r.err = last.err /\ r.v = last.v
            IN Same(PyStr(heap, last.arg))

\* escape returned for a string holding the five characters, and for an
\* object: the HTML of the object
C19_Witness ==
  /\ Escaped /\ last.err = ""
  /\ \/ last.arg = PyStrV(<<"a", "&", "<", ">", "\"", "'", "b">>) /\ last.v = PyStrV(<<"a", "&", "a", "m", "p", ";", "&", "l", "t", ";", "&", "g", "t", ";", "&", "q", "u", "o", "t", ";", "&", "#", "x", "2", "7", ";", "b">>)
     \/ last.arg.t = "ref" /\ last.v.t = "str" /\ Len(last.v.s) > 0


(***************************************************************************)
(* Compilation of units.  The compiler is not among the sources; this part *)
(* follows the design document: the parser reads the markup of a unit      *)
(* token by token and aborts the unit at the first structural error, the   *)
(* slots are resolved after the parse, the emitter runs last and produces  *)
(* in-memory text; a driver may compile several units side by side.        *)
(* A unit is [src, pos, open, phase, out, error, next_id, ids]: the tokens, *)
(* the position of the parser, the tags still open, the phase, the         *)
(* statements emitted, the error reported, the accumulator id counter of   *)
(* the unit and the ids it has handed out.                                 *)
(***************************************************************************)
\* units a driver compiles side by side
MaxUnits == 2

\* the slots the component Card declares
DeclaredSlots == {"header", "footer"}

NoError == [kind |-> "none", pos |-> 0]

\* the markup of a unit: <div><p>text</p></div>; <div>text (unterminated);
\* <div></p>text (mismatched close); <div class=>text</div> (invalid
\* attribute); <Card><p slot="header">..</Card>; a slot Card does not
\* declare; the same slot filled twice
Sources ==
  LET open(t) == [k |-> "open", tag |-> t]
      close(t) == [k |-> "close", tag |-> t]
      text == [k |-> "text", tag |-> ""]
      badattr(t) == [k |-> "badattr", tag |-> t]
      slot(n) == [k |-> "slot", tag |-> n]
  IN { <<open("div"), open("p"), text, close("p"), close("div")>>,
       <<open("div"), text>>,
       <<open("div"), close("p"), text>>,
       <<badattr("div"), text, close("div")>>,
       <<open("Card"), slot("header"), close("Card")>>,
       <<open("Card"), slot("aside"), close("Card")>>,
       <<open("Card"), slot("header"), slot("header"), close("Card")>> }

CompileInit ==
  /\ heap = <<>> /\ refs = <<>> /\ wraps = 0 /\ last = NoCall
  /\ plan = Idle /\ biscuit = Idle
  /\ units \in [1..MaxUnits ->
                  {[src |-> s, pos |-> 1, open |-> <<>>, phase |-> "parse",
                    out |-> <<>>, error |-> NoError,
                    next_id |-> Seed, ids |-> <<>>] : s \in Sources}]

\* a parser that reports a structural error and reads on
ParseToken_Recovering(u) ==
  /\ units[u].phase = "parse"
  /\ LET c == units[u]
         end == c.pos > Len(c.src)
         tok == IF end THEN [k |-> "end", tag |-> ""] ELSE c.src[c.pos]
         bad == \/ tok.k = "badattr"
                \/ tok.k = "close" /\ (c.open = <<>> \/ c.open[Len(c.open)] # tok.tag)
                \/ tok.k = "end" /\ c.open # <<>>
     IN units' = [units EXCEPT ![u] =
          [c EXCEPT !.pos = IF end THEN c.pos ELSE c.pos + 1,
                    !.open = IF tok.k = "open" THEN Append(c.open, tok.tag)
                             ELSE IF tok.k = "close" /\ c.open # <<>>
                               THEN SubSeq(c.open, 1, Len(c.open) - 1)
                             ELSE c.open,
                    !.error = IF bad /\ c.error = NoError
                                THEN [kind |-> "SyntaxError", pos |-> c.pos] ELSE c.error,
                    !.phase = IF end THEN "resolve" ELSE "parse"]]
  /\ UNCHANGED <<heap, refs, wraps, last, plan, biscuit>>

\* the parser reads the next token of the unit, or the end of its input:
\* an invalid attribute, a closing tag that does not match the innermost
\* open tag and a tag still open at the end are SyntaxErrors, which abort
\* the unit at the position of the token
ParseToken(u) ==
  /\ units[u].phase = "parse"
  /\ LET c == units[u]
         end == c.pos > Len(c.src)
         tok == IF end THEN [k |-> "end", tag |-> ""] ELSE c.src[c.pos]
         bad == \/ tok.k = "badattr"
                \/ tok.k = "close" /\ (c.open = <<>> \/ c.open[Len(c.open)] # tok.tag)
                \/ tok.k = "end" /\ c.open # <<>>
     IN units' = [units EXCEPT ![u] =
          IF bad THEN [c EXCEPT !.phase = "rejected",
                                !.error = [kind |-> "SyntaxError", pos |-> c.pos]]
          ELSE IF end THEN [c EXCEPT !.phase = "resolve"]
          ELSE [c EXCEPT !.pos = c.pos + 1,
                         !.open = IF tok.k = "open" THEN Append(c.open, tok.tag)
                                  ELSE IF tok.k = "close" THEN SubSeq(c.open, 1, Len(c.open) - 1)
                                  ELSE c.open]]
  /\ UNCHANGED <<heap, refs, wraps, last, plan, biscuit>>

\* the slots of the parsed unit are resolved: markup for a slot the
\* component does not declare, or for a slot filled before in the
\* invocation, is a SlotResolutionError, which aborts the unit
ResolveSlots(u) ==
  /\ units[u].phase = "resolve"
  /\ LET c == units[u]
         wrong == {i \in 1..Len(c.src) :
                     /\ c.src[i].k = "slot"
                     /\ \/ c.src[i].tag \notin DeclaredSlots
                        \/ \E j \in 1..(i - 1) : c.src[j] = c.src[i]}
     IN units' = [units EXCEPT ![u] =
          IF wrong # {}
            THEN [c EXCEPT !.phase = "rejected",
                           !.error = [kind |-> "SlotResolutionError",
                                      pos |-> CHOOSE i \in wrong : \A j \in wrong : i <= j]]
          ELSE [c EXCEPT !.phase = "emit"]]
  /\ UNCHANGED <<heap, refs, wraps, last, plan, biscuit>>

\* an emitter that draws the accumulator ids from one counter for all the
\* units of the driver
Emit_SharedCounter(u) ==
  /\ units[u].phase = "emit"
  /\ LET c == units[u]
         n == Len(c.out) + 1
         RECURSIVE Drawn(_)
         Drawn(k) == IF k = 0 THEN 0 ELSE Len(units[k].ids) + Drawn(k - 1)
     IN units' = [units EXCEPT ![u] =
          [c EXCEPT !.out = Append(c.out, c.src[n]),
                    !.ids = IF c.src[n].k = "open"
                              THEN Append(c.ids, Seed + Drawn(Len(units)) * Stride) ELSE c.ids,
                    !.phase = IF n = Len(c.src) THEN "done" ELSE "emit"]]
  /\ UNCHANGED <<heap, refs, wraps, last, plan, biscuit>>

\* the emitter appends the statement of the next node to the text of the
\* unit; the scope an opening tag starts gets the next id of the counter of
\* the unit, which advances by the stride; the unit is compiled when every
\* node has its statement
Emit(u) ==
  /\ units[u].phase = "emit"
  /\ LET c == units[u]
         n == Len(c.out) + 1
         scope == c.src[n].k = "open"
     IN units' = [units EXCEPT ![u] =
          [c EXCEPT !.out = Append(c.out, c.src[n]),
                    !.ids = IF scope THEN Append(c.ids, c.next_id) ELSE c.ids,
                    !.next_id = IF scope THEN c.next_id + Stride ELSE c.next_id,
                    !.phase = IF n = Len(c.src) THEN "done" ELSE "emit"]]
  /\ UNCHANGED <<heap, refs, wraps, last, plan, biscuit>>

CompileNext ==
  \/ \E u \in 1..MaxUnits : ParseToken(u)
  \/ \E u \in 1..MaxUnits : ResolveSlots(u)
  \/ \E u \in 1..MaxUnits : Emit(u)

CompileSpec == CompileInit /\ [][CompileNext]_vars

\* the unit has ended
Ended(c) == c.phase \in {"done", "rejected"}

\* the tags open after the first n tokens of a source
RECURSIVE OpenTags(_, _)
OpenTags(src, n) ==
  IF n = 0 THEN <<>>
  ELSE LET o == OpenTags(src, n - 1)
       IN IF src[n].k = "open" THEN Append(o, src[n].tag)
          ELSE IF src[n].k = "close" /\ o # <<>> THEN SubSeq(o, 1, Len(o) - 1)
          ELSE o

\* the positions of a source with a structural error, the end of the
\* input included, and the positions with a slot error
StructuralErrors(src) ==
  {i \in 1..Len(src) :
     \/ src[i].k = "badattr"
     \/ /\ src[i].k = "close"
        /\ LET o == OpenTags(src, i - 1) IN o = <<>> \/ o[Len(o)] # src[i].tag}
  \cup {i \in {Len(src) + 1} : OpenTags(src, Len(src)) # <<>>}
SlotErrors(src) ==
  {i \in 1..Len(src) :
     /\ src[i].k = "slot"
     /\ \/ src[i].tag \notin DeclaredSlots
        \/ \E j \in 1..(i - 1) : src[j].k = "slot" /\ src[j].tag = src[i].tag}
Least(S) == CHOOSE i \in S : \A j \in S : i <= j

\* the first error of a source: the first structural error if it has one,
\* or else its first slot error
FirstError(src) ==
  IF StructuralErrors(src) # {}
    THEN [kind |-> "SyntaxError", pos |-> Least(StructuralErrors(src))]
  ELSE IF SlotErrors(src) # {}
    THEN [kind |-> "SlotResolutionError", pos |-> Least(SlotErrors(src))]
  ELSE NoError

\* C20: the compilation of a unit ends in exactly one of two outcomes, the
\* complete emitted code or an error with no emitted code; after the first
\* structural parse error or slot resolution error nothing more is parsed
\* or emitted for the unit; the outcome of a unit is that of its own source,
\* whatever happens to the units compiled beside it.
C20_AllOrNothing ==
  [][\A u \in DOMAIN units :
       LET c == units[u]
           d == units'[u]
       IN /\ Ended(c) => d = c
          /\ d.src = c.src
          /\ d.error # NoError => (d.phase = "rejected" /\ d.out = <<>>)
          /\ d.phase = "rejected" =>
               /\ d.error # NoError /\ d.error = FirstError(d.src)
               /\ d.error.kind = "SyntaxError" => d.pos = d.error.pos
          /\ d.phase = "done" =>
               (d.error = NoError /\ d.out = d.src /\ FirstError(d.src) = NoError)
          /\ d.phase \notin {"done", "rejected"} => Len(d.out) < Len(d.src)]_vars

\* a unit was rejected at a token with tokens left unread and nothing
\* emitted, a unit with a slot error was rejected, and the unit compiled
\* beside one of them has its complete code
C20_Witness ==
  /\ \E u \in DOMAIN units :
       /\ units[u].phase = "rejected" /\ units[u].out = <<>>
       \* the structural error is before the last token
       /\ units[u].error.kind = "SyntaxError" /\ units[u].error.pos < Len(units[u].src)
  /\ \E u \in DOMAIN units :
       units[u].phase = "done" /\ units[u].out = units[u].src


\* the modules of the homepage example named by cards.py, layout.py and
\* features.py, compiled as files of one project
HomepageUnits ==
  { <<"FeatureCard", "ExampleCard">>, <<"PageHeader", "CodeComparison">>, <<"FeaturesGrid">> }

\* the ids a source gets when it is compiled alone: one per opening tag,
\* from the seed, a stride apart
AloneIds(src) ==
  [k \in 1..Cardinality({i \in 1..Len(src) : src[i].k = "open"}) |-> Seed + (k - 1) * Stride]

\* C21: when several source files are compiled in parallel, under any
\* interleaving, the accumulator ids of each file are those it gets when
\* compiled alone, whatever the other files consumed; and each module of the
\* homepage example, compiled with the others, numbers its accumulators from
\* the seed on.
C21_PrivateIds ==
  /\ \A u \in DOMAIN units :
       /\ Len(units[u].ids) <= Len(AloneIds(units[u].src))
       /\ units[u].ids = SubSeq(AloneIds(units[u].src), 1, Len(units[u].ids))
       /\ units[u].phase = "done" => units[u].ids = AloneIds(units[u].src)
  /\ \A m \in HomepageUnits :
       \A k \in 1..Len(UnitIds[m]) : UnitIds[m][k] = Seed + (k - 1) * Stride

\* two units were compiled side by side, their emission interleaved, and
\* both have their ids: the second id of one was drawn after the first id
\* of the other
C21_Witness ==
  \E u, w \in DOMAIN units :
    /\ u # w
    /\ units[u].phase = "done" /\ Len(units[u].ids) = 2
    /\ units[w].phase = "emit" /\ Len(units[w].ids) = 1 /\ Len(AloneIds(units[w].src)) = 2


(***************************************************************************)
(* The static-subtree optimizer.  It is not among the sources; this part   *)
(* follows section 4.6 of the design document: a scope whose body appends  *)
(* exactly one unconditional child to its accumulator, with no control     *)
(* flow, is rewritten to a direct expression and its accumulator removed,  *)
(* and a root of one child is returned without the fragment.  A pass takes *)
(* the scopes it found collapsible when it started, in any order.  It runs *)
(* on the statements of a render body; plan is [cls, block, todo, pass,    *)
(* first]: the body it was given, its statements now, the scopes the pass  *)
(* has still to take, the number of the pass, the result of the first.     *)
(***************************************************************************)
\* the statements of block b that append to the accumulator a, and those
\* that read it
AppendsAt(b, a) == {i \in DOMAIN b : b[i].s = "append" /\ b[i].var = a}
ReadsAt(b, a) ==
  {i \in DOMAIN b :
     \/ b[i].s \in {"assign", "append", "return"} /\ a \in Reads(b[i].x)
     \/ b[i].s \notin {"assign", "append", "return"}}

\* a pass that collapses the root scope alone, the one whose accumulator is
\* used by the return statement
Collapsible_RootOnly(b) ==
  {a \in {b[i].var : i \in {j \in DOMAIN b : b[j].s = "assign"}} :
     /\ \E i \in DOMAIN b : b[i] = Assign(a, ListE(<<>>))
     /\ Cardinality(AppendsAt(b, a)) = 1
     /\ \A i \in DOMAIN b : b[i].s \notin {"assign", "append", "return"} => ~AppendsTo(<<b[i]>>, a)
     /\ \E j \in DOMAIN b :
          /\ {i \in ReadsAt(b, a) : b[i].s \in {"assign", "append", "return"}} = {j}
          /\ b[j].s = "return"
          /\ \A i \in AppendsAt(b, a) : i < j}

\* the accumulators of the block b that one pass may collapse: declared in
\* b, appended to by exactly one statement, which is a statement of b itself,
\* and read by exactly one later statement of b
Collapsible(b) ==
  {a \in {b[i].var : i \in {j \in DOMAIN b : b[j].s = "assign"}} :
     /\ \E i \in DOMAIN b : b[i] = Assign(a, ListE(<<>>))
     /\ Cardinality(AppendsAt(b, a)) = 1
     /\ \A i \in DOMAIN b : b[i].s \notin {"assign", "append", "return"} => ~AppendsTo(<<b[i]>>, a)
     /\ \E j \in DOMAIN b :
          /\ {i \in ReadsAt(b, a) : b[i].s \in {"assign", "append", "return"}} = {j}
          /\ b[j].s \in {"append", "return"}
          /\ \A i \in AppendsAt(b, a) : i < j}

\* the expression x with the child y in the place of the accumulator a:
\* el(tag, a) becomes el(tag, y), fragment(a) becomes y
RECURSIVE Inline(_, _, _)
Inline(x, a, y) ==
  CASE x.e = "fragment" -> IF x.arg = Var(a) THEN y ELSE [x EXCEPT !.arg = Inline(x.arg, a, y)]
    [] x.e = "el" -> [x EXCEPT !.content = IF x.content = Var(a) THEN y ELSE Inline(x.content, a, y)]
    [] x.e = "list" -> [x EXCEPT !.items = [i \in DOMAIN x.items |-> Inline(x.items[i], a, y)]]
    [] OTHER -> x

\* the block b with the scope of the accumulator a collapsed
Collapse(b, a) ==
  LET decl == CHOOSE i \in DOMAIN b : b[i] = Assign(a, ListE(<<>>))
      app == CHOOSE i \in AppendsAt(b, a) : TRUE
      lo == IF decl < app THEN decl ELSE app
      hi == IF decl < app THEN app ELSE decl
      Old(k) == IF k < lo THEN k ELSE IF k + 1 < hi THEN k + 1 ELSE k + 2
  IN [k \in 1..(Len(b) - 2) |->
        LET st == b[Old(k)]
        IN IF st.s \in {"append", "return"} /\ a \in Reads(st.x)
             THEN [st EXCEPT !.x = Inline(st.x, a, b[app].x)]
           ELSE st]

\* one pass over a block, its scopes taken in the order of their names
RECURSIVE Optimize(_)
Optimize(b) ==
  IF Collapsible(b) = {} THEN b
  ELSE Optimize(Collapse(b, CHOOSE a \in Collapsible(b) : TRUE))

OptimizeInit ==
  /\ heap = <<>> /\ refs = <<>> /\ wraps = 0 /\ last = NoCall
  /\ units = Idle /\ biscuit = Idle
  /\ plan \in {[cls |-> c, block |-> Body(c), todo |-> Collapsible(Body(c)), pass |-> 1,
                first |-> <<>>] : c \in UnitClasses}

\* the pass takes one of the scopes left to it
CollapseScope(a) ==
  /\ a \in plan.todo
  /\ plan' = [plan EXCEPT !.todo = @ \ {a},
                          !.block = IF a \in Collapsible(plan.block)
                                      THEN Collapse(plan.block, a) ELSE plan.block]
  /\ UNCHANGED <<heap, refs, wraps, last, units, biscuit>>

\* the optimizer is applied again, to the output of the first pass
SecondPass ==
  /\ plan.pass = 1 /\ plan.todo = {}
  /\ plan' = [plan EXCEPT !.pass = 2, !.first = plan.block, !.todo = Collapsible(plan.block)]
  /\ UNCHANGED <<heap, refs, wraps, last, units, biscuit>>

OptimizeNext ==
  \/ \E a \in AllocatedNames : CollapseScope(a)
  \/ SecondPass

OptimizeSpec == OptimizeInit /\ [][OptimizeNext]_vars

\* C22: the static-subtree optimizer is idempotent and order-independent:
\* whatever the order in which a pass takes the sibling scopes, the pass
\* ends with the same statements, and a second pass on its output finds
\* nothing to collapse and changes nothing; the recorded outputs Card._render
\* and ElementWithAttributes._render are left as they are.
C22_OptimizerIdempotent ==
  /\ plan.todo = {} => plan.block = Optimize(Body(plan.cls))
  /\ plan.pass = 2 => (plan.todo = {} /\ plan.block = plan.first)
  /\ plan.cls \in {"Card", "ElementWithAttributes"} => plan.block = Body(plan.cls)

\* a body with two collapsible scopes went through the first pass, which
\* removed both accumulators, and through the start of the second
C22_Witness ==
  /\ plan.pass = 2
  /\ Cardinality(Collapsible(Body(plan.cls))) >= 2
  /\ Len(plan.block) = Len(Body(plan.cls)) - 4


\* the values the runtime's boundary is declared for: an Element, a string
\* or None
AtBoundary(h, v) == v.t \in {"none", "str"} \/ IsElement(h, v)

\* the lists that are the children of an element or of a fragment
ChildLists(h) == {h[i].children : i \in {j \in DOMAIN h : h[j].k = "elem"}}

\* C23: every value a generated _render returned, and every value the
\* generated code appended to an accumulator or passed to el() or fragment()
\* as a child, is an Element, a string or None (while the program has made
\* no element of its own, every element of the heap is one the generated
\* code made).
C23_BoundaryTypes ==
  /\ \A i \in DOMAIN heap :
       (heap[i].k = "view" /\ heap[i].returned > 0 /\ heap[i].has_render_cache)
         => AtBoundary(heap, heap[i].render_cache)
  /\ wraps = 0 =>
       \A l \in ChildLists(heap) : \A k \in 1..Len(heap[l].items) :
         AtBoundary(heap, heap[l].items[k])


(***************************************************************************)
(* Branching.  A source construct is a chain of <<predicate, markup>>, the *)
(* last with the predicate TRUE (else, or the wildcard case); it produces  *)
(* the markup of its first branch whose predicate holds.  The markup of a  *)
(* branch is what its elements render to: an element escapes its text      *)
(* children, so a text built with escape() is given here as the element    *)
(* renders it.                                                             *)
(***************************************************************************)
FirstHolding(chain) ==
  chain[CHOOSE i \in DOMAIN chain : chain[i][1] /\ \A j \in 1..(i - 1) : ~chain[j][1]][2]

\* the text child t as its element renders it
TextChild(t) == escape(PyStrV(t))

\* if / elif / else of ConditionalView on user_type, then if / else on
\* the truth value of is_admin (conditionals.py:10-21)
ConditionalSource(f) ==
  <<"<", "d", "i", "v", ">">>
  \o FirstHolding(<< <<f.user_type = PyStrV(<<"g", "u", "e", "s", "t">>), <<"<", "p", ">", "W", "e", "l", "c", "o", "m", "e", ",", " ", "g", "u", "e", "s", "t", "!", "<", "/", "p", ">">>>>,
                     <<f.user_type = PyStrV(<<"u", "s", "e", "r">>), <<"<", "p", ">", "H", "e", "l", "l", "o", ",", " ", "r", "e", "g", "i", "s", "t", "e", "r", "e", "d", " ", "u", "s", "e", "r", "!", "<", "/", "p", ">">>>>,
                     <<TRUE, <<"<", "p", ">">> \o TextChild(<<"W", "e", "l", "c", "o", "m", "e", ",", " ">> \o escape(f.user_type) \o <<"!">>)
                               \o <<"<", "/", "p", ">">>>> >>)
  \o FirstHolding(<< <<Truthy(heap, f.is_admin),
                       <<"<", "d", "i", "v", " ", "c", "l", "a", "s", "s", "=", "\"", "a", "d", "m", "i", "n", "-", "p", "a", "n", "e", "l", "\"", ">", "<", "h", "3", ">", "A", "d", "m", "i", "n", " ", "C", "o", "n", "t", "r", "o", "l", "s", "<", "/", "h", "3", ">", "<", "b", "u", "t", "t", "o", "n", ">", "A", "d", "m", "i", "n", " ", "A", "c", "t", "i", "o", "n", "s", "<", "/", "b", "u", "t", "t", "o", "n", ">", "<", "/", "d", "i", "v", ">">>>>,
                     <<TRUE, <<"<", "p", ">", "R", "e", "g", "u", "l", "a", "r", " ", "u", "s", "e", "r", " ", "v", "i", "e", "w", "<", "/", "p", ">">>>> >>)
  \o <<"<", "/", "d", "i", "v", ">">>

\* match / case of MatchView on status (match_statements.py:10-24)
MatchSource(f) ==
  <<"<", "d", "i", "v", ">">>
  \o FirstHolding(<< <<f.status = PyStrV(<<"l", "o", "a", "d", "i", "n", "g">>), <<"<", "d", "i", "v", " ", "c", "l", "a", "s", "s", "=", "\"", "s", "p", "i", "n", "n", "e", "r", "\"", ">", "L", "o", "a", "d", "i", "n", "g", ".", ".", ".", "<", "/", "d", "i", "v", ">">>>>,
                     <<f.status = PyStrV(<<"s", "u", "c", "c", "e", "s", "s">>),
                       <<"<", "d", "i", "v", " ", "c", "l", "a", "s", "s", "=", "\"", "s", "u", "c", "c", "e", "s", "s", "\"", ">", "<", "h", "2", ">", "S", "u", "c", "c", "e", "s", "s", "!", "<", "/", "h", "2", ">", "<", "p", ">">>
                         \o TextChild(<<"D", "a", "t", "a", " ", "l", "o", "a", "d", "e", "d", ":", " ">> \o IntStr(Len(f.data.d)) \o <<" ", "i", "t", "e", "m", "s">>)
                         \o <<"<", "/", "p", ">", "<", "/", "d", "i", "v", ">">>>>,
                     <<f.status = PyStrV(<<"e", "r", "r", "o", "r">>),
                       <<"<", "d", "i", "v", " ", "c", "l", "a", "s", "s", "=", "\"", "e", "r", "r", "o", "r", "\"", ">", "<", "h", "2", ">", "E", "r", "r", "o", "r", " ", "o", "c", "c", "u", "r", "r", "e", "d", "<", "/", "h", "2", ">", "<", "p", ">", "F", "a", "i", "l", "e", "d", " ", "t", "o", " ", "l", "o", "a", "d", " ", "d", "a", "t", "a", "<", "/", "p", ">", "<", "/", "d", "i", "v", ">">>>>,
                     <<TRUE, <<"<", "d", "i", "v", " ", "c", "l", "a", "s", "s", "=", "\"", "u", "n", "k", "n", "o", "w", "n", "\"", ">", "<", "p", ">">>
                               \o TextChild(<<"U", "n", "k", "n", "o", "w", "n", " ", "s", "t", "a", "t", "u", "s", ":", " ">> \o escape(f.status))
                               \o <<"<", "/", "p", ">", "<", "/", "d", "i", "v", ">">>>> >>)
  \o <<"<", "/", "d", "i", "v", ">">>

\* C24: for every input, an emitted if / elif / else chain (nested else: if)
\* and an emitted match with a wildcard case append exactly what the first
\* branch in source order whose predicate or pattern holds appends, the else
\* or wildcard body when none holds: a rendered ConditionalView or MatchView
\* is the markup of its source construct.
C24_FirstBranch ==
  \A i \in DOMAIN heap :
    (heap[i].k = "view" /\ heap[i].html_cache.t = "str") =>
      /\ heap[i].cls = "conditionals.ConditionalView"
           => heap[i].html_cache.s = ConditionalSource(heap[i].fields)
      /\ heap[i].cls = "MatchView" => heap[i].html_cache.s = MatchSource(heap[i].fields)

\* a view whose second branch was taken, and a view matched by the wildcard
\* case alone, have been rendered
C24_Witness ==
  \E i \in DOMAIN heap :
    /\ heap[i].k = "view" /\ heap[i].html_cache.t = "str"
    /\ \/ heap[i].cls = "conditionals.ConditionalView" /\ heap[i].fields.user_type = PyStrV(<<"u", "s", "e", "r">>)
       \/ heap[i].cls = "MatchView" /\ heap[i].fields.status \notin {PyStrV(s) : s \in {<<"l", "o", "a", "d", "i", "n", "g">>, <<"s", "u", "c", "c", "e", "s", "s">>, <<"e", "r", "r", "o", "r">>}}

\* C25: a text node with literal and interpolated segments is emitted as
\* exactly one interpolated-string expression, each interpolated segment
\* once inside one escape(...) call; stated of the text nodes of an emitted
\* module the program imports.
C25_FusedText ==
  last.op = "import" =>
    \A t \in TextNodes(last.arg.s[1]) :
      /\ OneInterpolatedString(t)
      /\ \A x \in Fields(t) : EscapeCall(x)


\* the attribute name="..." with the text of the string s as its value
Quoted(name, s) == <<" ">> \o name \o <<"=", "\"">> \o escape(PyStrV(s)) \o <<"\"">>

\* the markup of BooleanAttributes with every attribute wrapped in escape
\* present and quoted (boolean_attributes.py:11-13)
BooleanSource(f) ==
  <<"<", "f", "o", "r", "m", ">", "<", "i", "n", "p", "u", "t", " ", "t", "y", "p", "e", "=", "\"", "t", "e", "x", "t", "\"">>
  \o Quoted(<<"r", "e", "a", "d", "o", "n", "l", "y">>, escape(PyBool(~Truthy(heap, f.is_editable))))
  \o Quoted(<<"r", "e", "q", "u", "i", "r", "e", "d">>, escape(f.is_required))
  \o Quoted(<<"d", "i", "s", "a", "b", "l", "e", "d">>, escape(PyBool(FALSE)))
  \o Quoted(<<"a", "u", "t", "o", "f", "o", "c", "u", "s">>, escape(PyBool(TRUE)))
  \o <<">", "<", "/", "i", "n", "p", "u", "t", ">", "<", "i", "n", "p", "u", "t", " ", "t", "y", "p", "e", "=", "\"", "c", "h", "e", "c", "k", "b", "o", "x", "\"">>
  \o Quoted(<<"c", "h", "e", "c", "k", "e", "d">>, escape(f.is_editable))
  \o <<">", "<", "/", "i", "n", "p", "u", "t", ">", "<", "b", "u", "t", "t", "o", "n", " ", "t", "y", "p", "e", "=", "\"", "s", "u", "b", "m", "i", "t", "\"">>
  \o Quoted(<<"d", "i", "s", "a", "b", "l", "e", "d">>, escape(PyBool(~Truthy(heap, f.is_editable))))
  \o <<">", "S", "u", "b", "m", "i", "t", "<", "/", "b", "u", "t", "t", "o", "n", ">", "<", "/", "f", "o", "r", "m", ">">>

\* C26: for every value v, True, False and None included, an attribute
\* emitted as {name: escape(v)} is rendered as name="..." with a quoted value,
\* never left out and never a bare name; stated of every rendered
\* BooleanAttributes, whose attributes other than type are emitted so.
C26_EscapedAttributeQuoted ==
  \A i \in ViewsOf("BooleanAttributes") :
    HasHtml(i) => heap[i].html_cache.s = BooleanSource(heap[i].fields)

\* an editable BooleanAttributes with is_required None or False has
\* rendered
C26_Witness ==
  /\ \E i \in ViewsOf("BooleanAttributes") :
       /\ HasHtml(i)
       /\ heap[i].fields.is_required \in {PyNone, PyBool(FALSE)}
       /\ heap[i].fields.is_editable = PyBool(TRUE)


\* C27: a dynamic string attribute value v emitted as {name: escape(v)}
\* stands in the rendered HTML escaped exactly once, as escape(v) and not
\* escape(escape(v)); stated of class of DynamicAttributes and of href of
\* PageHeader.
C27_AttributeEscapedOnce ==
  \A o \in ViewIds : HasHtml(o) =>
    /\ heap[o].cls = "DynamicAttributes" =>
         Contains(Html(o), <<"<", "d", "i", "v", " ", "c", "l", "a", "s", "s", "=", "\"">> \o escape(heap[o].fields.css_class) \o <<"\"", " ", "d", "a", "t", "a", "-", "u", "s", "e", "r", "-", "i", "d", "=">>)
    /\ heap[o].cls = "PageHeader" =>
         Contains(Html(o), <<"<", "a", " ", "h", "r", "e", "f", "=", "\"">> \o escape(heap[o].fields.cta_url) \o <<"\"", " ", "c", "l", "a", "s", "s", "=">>)


(***************************************************************************)
(* A program that also changes the elements it holds: it appends to the    *)
(* list an element was given, and sets an attribute of an element.         *)
(***************************************************************************)
MaxChildren == 2

\* e.children.append("+"): the list is the one the element was made with
AppendChild(v) ==
  /\ v \in HeldElements
  /\ Len(heap[heap[v.id].children].items) < MaxChildren
  /\ heap' = ListAppend(heap, heap[v.id].children, PyStrV(<<"+">>))
  /\ last' = [op |-> "append", id |-> v.id, arg |-> PyStrV(<<"+">>), v |-> PyNone, err |-> ""]
  /\ UNCHANGED <<refs, wraps, units, plan, biscuit>>

\* e.attrs["z"] = "1"
SetAttr(v) ==
  /\ v \in HeldElements
  /\ ~KwHas(heap[v.id].attrs, <<"z">>)
  /\ heap' = [heap EXCEPT ![v.id].attrs = Append(@, <<<<"z">>, PyStrV(<<"1">>)>>)]
  /\ last' = [op |-> "setattr", id |-> v.id, arg |-> PyStrV(<<"1">>), v |-> PyNone, err |-> ""]
  /\ UNCHANGED <<refs, wraps, units, plan, biscuit>>

\* the objects such a program starts from: elements made with one child, a
\* view that returns an element, a view that returns a list's element
MutableConstructions ==
  {ElE(<<"p">>, LitS(<<"<", "x", ">">>)), ElA(<<"i">>, LitS(<<>>), << <<<<"a">>, Lit(PyInt(1))>> >>)}
  \cup {x \in Constructions : x.e = "new" /\ x.cls \in {"Card", "UserList"}}

MutateNext ==
  \/ \E x \in MutableConstructions : Construct(x)
  \/ \E v \in Held : CallViewRender(v)
  \/ \E v \in Held : CallElementStr(v)
  \/ \E v \in Held : WrapEl(v)
  \/ \E v \in Held : WrapFragment(v)
  \/ \E v \in Held : AppendChild(v)
  \/ \E v \in Held : SetAttr(v)

MutateSpec == Init /\ [][MutateNext]_vars

\* what the children of the element e render to in the heap h, each object
\* among them as it is cached
Inner(h, e) ==
  Join([i \in DOMAIN h[h[e].children].items |->
          LET c == h[h[e].children].items[i]
          IN IF c.t = "ref" THEN h[c.id].html_cache.s ELSE escape(c)])

\* the HTML of the element e from its list and attributes as they are in h
ElementHtml(h, e) ==
  IF h[e].frag THEN Inner(h, e)
  ELSE IF h[e].self_close THEN OpeningTag(h[e].tag, h[e].attrs) \o <<" ", "/", ">">>
  ELSE OpeningTag(h[e].tag, h[e].attrs) \o <<">">> \o Inner(h, e)
         \o <<"<", "/">> \o h[e].tag \o <<">">>

\* C28: an Element or FragmentElement keeps the caller's list by reference
\* and caches its HTML on the first str(): the first str() renders the list
\* as it is then, with the items appended to it since the element was made,
\* and from then on every str() of the element returns the identical string,
\* whatever is appended to the list or changed in its attributes or
\* descendants afterwards.
C28_ByReferenceCached ==
  [][\A e \in ElemIds :
       /\ (~HasHtml(e) /\ heap'[e].html_cache.t = "str")
            => heap'[e].html_cache.s = ElementHtml(heap', e)
       /\ HasHtml(e) => heap'[e].html_cache = heap[e].html_cache
       /\ (HasHtml(e) /\ last'.op = "str" /\ last'.id = e /\ last' # last)
            => last'.v = heap[e].html_cache]_vars

\* str() of an element returned its cached HTML, without the item that was
\* appended to its list after the first str()
C28_Witness ==
  /\ last.op = "str" /\ last.id \in ElemIds /\ last.err = ""
  /\ Len(heap[heap[last.id].children].items) = MaxChildren
  /\ ~Contains(last.v.s, <<"+">>)
  /\ last.v.s # ElementHtml(heap, last.id)


(***************************************************************************)
(* A program that places one view instance in two parents, once as it is   *)
(* and once through render_child, and renders both parents.                *)
(***************************************************************************)
\* str(el("div", v))
PlacedDirectly(h, v) ==
  LET Str(e) == PyStr(e.h, e.v)
  IN Str(el(h, <<"d", "i", "v">>, v, PyNone, FALSE))

\* str(el("div", render_child(v)))
PlacedRendered(h, v) ==
  LET Str(e) == PyStr(e.h, e.v)
      Wrap(c) == IF c.err # "" THEN c
                 ELSE Str(el(c.h, <<"d", "i", "v">>, c.v, PyNone, FALSE))
  IN Wrap(render_child(h, v))

\* both placements of the view v, the direct one first; last.arg is the
\* HTML of the direct parent, last.v that of the other; the parents count
\* as wrappers
Place(v) ==
  /\ v \in HeldViews /\ MayRender(v) /\ wraps < MaxWraps
  /\ \E first \in {PlacedDirectly(heap, v)} :
       \E second \in {IF first.err # "" THEN first ELSE PlacedRendered(first.h, v)} :
         /\ second.err # "Unmodelled"
         /\ heap' = second.h
         /\ last' = [op |-> "place", id |-> v.id, arg |-> first.v, v |-> second.v,
                     err |-> second.err]
  /\ wraps' = wraps + 1
  /\ UNCHANGED <<refs, units, plan, biscuit>>

PlaceNext ==
  \/ \E x \in {y \in Constructions : y.e = "new"} : Construct(x)
  \/ \E v \in Held : CallGetRendered(v)
  \/ \E v \in Held : Place(v)

PlaceSpec == Init /\ [][PlaceNext]_vars

\* C29: a view instance renders to the same HTML inside a parent element
\* whether it is placed in the children directly or passed through
\* render_child() first, for every kind of _render result: an Element, a
\* string with HTML-special characters, another view.
C29_SamePlacement ==
  (last.op = "place" /\ last.err = "" /\ heap[last.id].render_cache.t # "none")
    => last.arg = last.v


(***************************************************************************)
(* biscuit.py.  biscuit is [buffer, views, slots, last]: the text in the   *)
(* buffer of the Writer made once as the default of the writer parameter   *)
(* of AnonymousView.render (biscuit.py:28), the text each AnonymousView's  *)
(* render function writes, the views added to a Slots by name, and the     *)
(* last call with what its render function wrote and what it returned.     *)
(***************************************************************************)
MaxViews == 2
MaxWrites == 3
Written == {<<>>, <<"a">>, <<"<", "b", ">">>}
SlotNames == {"header", "footer"}

NoRender == [op |-> "none", view |-> 0, wrote |-> <<>>, out |-> <<>>]

BiscuitInit ==
  /\ heap = <<>> /\ refs = <<>> /\ wraps = 0 /\ last = NoCall
  /\ units = Idle /\ plan = Idle
  /\ biscuit = [buffer |-> <<>>, views |-> <<>>, slots |-> <<>>, last |-> NoRender]

\* AnonymousView(lambda writer: writer.write(t))
NewAnonymousView(t) ==
  /\ Len(biscuit.views) < MaxViews
  /\ biscuit' = [biscuit EXCEPT !.views = Append(@, t),
                                !.last = [op |-> "new", view |-> Len(biscuit.views) + 1,
                                          wrote |-> <<>>, out |-> <<>>]]
  /\ UNCHANGED <<heap, refs, wraps, last, units, plan>>

\* Writer.write on the buffer b, then Writer.to_string (biscuit.py:8-12)
WriterWrite(b, content) == b \o content

\* v.render() and str(v): the writer is the default one (biscuit.py:28-30, 35-36)
RenderDefault(op, i) ==
  /\ i \in DOMAIN biscuit.views
  /\ Len(biscuit.buffer) + Len(biscuit.views[i]) <= MaxWrites
  /\ biscuit' = [biscuit EXCEPT !.buffer = WriterWrite(@, biscuit.views[i]),
                                !.last = [op |-> op, view |-> i, wrote |-> biscuit.views[i],
                                          out |-> WriterWrite(biscuit.buffer, biscuit.views[i])]]
  /\ UNCHANGED <<heap, refs, wraps, last, units, plan>>

\* v.render(Writer()): a writer of the caller's
RenderWith(i) ==
  /\ i \in DOMAIN biscuit.views
  /\ biscuit' = [biscuit EXCEPT !.last = [op |-> "render_with", view |-> i,
                                          wrote |-> biscuit.views[i],
                                          out |-> WriterWrite(<<>>, biscuit.views[i])]]
  /\ UNCHANGED <<heap, refs, wraps, last, units, plan>>

\* slots.add(name, v): self.slots[name] = view (biscuit.py:42-43).  A name
\* the dict holds keeps its place and gets the new view.
SlotsAdd(name, i) ==
  /\ i \in DOMAIN biscuit.views
  /\ biscuit' = [biscuit EXCEPT
                   !.slots = IF KwHas(@, name)
                             THEN [k \in DOMAIN @ |-> IF @[k][1] = name THEN <<name, i>> ELSE @[k]]
                             ELSE Append(@, <<name, i>>),
                   !.last = [op |-> "add", view |-> i, wrote |-> <<>>, out |-> <<>>]]
  /\ UNCHANGED <<heap, refs, wraps, last, units, plan>>

\* slots[name] = v: self.slots[name] = value (biscuit.py:56-57)
SlotsSetItem(name, i) ==
  /\ i \in DOMAIN biscuit.views
  /\ biscuit' = [biscuit EXCEPT
                   !.slots = IF KwHas(@, name)
                             THEN [k \in DOMAIN @ |-> IF @[k][1] = name THEN <<name, i>> ELSE @[k]]
                             ELSE Append(@, <<name, i>>),
                   !.last = [op |-> "setitem", view |-> i, wrote |-> <<>>, out |-> <<>>]]
  /\ UNCHANGED <<heap, refs, wraps, last, units, plan>>

\* slots.get(name).render(): the view added under the name, or a new
\* AnonymousView that writes nothing (biscuit.py:45-48)
SlotsGetRender(name) ==
  /\ Len(biscuit.buffer) + (IF KwHas(biscuit.slots, name)
                              THEN Len(biscuit.views[KwGet(biscuit.slots, name)]) ELSE 0) <= MaxWrites
  /\ LET wrote == IF KwHas(biscuit.slots, name) THEN biscuit.views[KwGet(biscuit.slots, name)]
                  ELSE <<>>
     IN biscuit' = [biscuit EXCEPT !.buffer = WriterWrite(@, wrote),
                                   !.last = [op |-> "get", wrote |-> wrote,
                                             view |-> IF KwHas(biscuit.slots, name)
                                                        THEN KwGet(biscuit.slots, name) ELSE 0,
                                             out |-> WriterWrite(biscuit.buffer, wrote)]]
  /\ UNCHANGED <<heap, refs, wraps, last, units, plan>>

BiscuitNext ==
  \/ \E t \in Written : NewAnonymousView(t)
  \/ \E i \in 1..MaxViews : RenderDefault("render", i)
  \/ \E i \in 1..MaxViews : RenderDefault("str", i)
  \/ \E i \in 1..MaxViews : RenderWith(i)
  \/ \E n \in SlotNames, i \in 1..MaxViews : SlotsAdd(n, i)
  \/ \E n \in SlotNames, i \in 1..MaxViews : SlotsSetItem(n, i)
  \/ \E n \in SlotNames : SlotsGetRender(n)

BiscuitSpec == BiscuitInit /\ [][BiscuitNext]_vars

\* C30: each call of AnonymousView.render() made without a writer returns
\* exactly the text its render function wrote during that call, with no
\* output of an earlier call, on the same or on another instance.
C30_OwnOutput ==
  biscuit.last.op \in {"render", "str", "get"} => biscuit.last.out = biscuit.last.wrote

====
